---- MODULE Spec2Model ----
(***************************************************************************)
(* MongoPortable: the Collection (insert / find / update / remove) over    *)
(* its two fields docs and doc_indexes, and the stores of its database,    *)
(* which receive the events of the collection's calls.                     *)
(*                                                                         *)
(* JavaScript values are tagged tuples; strings (field names, key paths,   *)
(* string values, property keys) are sequences of one-character strings,   *)
(* so that substr, split, replace(/\D/g) and toString are computed.        *)
(* Array positions are 0-based as in the source; docs[i] of the source is  *)
(* docs[i + 1] here.                                                       *)
(***************************************************************************)
EXTENDS Integers, Sequences, FiniteSets, TLC

VARIABLES docs, doc_indexes, oid_counter, _stores, last, connections, dbs, accessors

vars == <<docs, doc_indexes, oid_counter, _stores, last, connections, dbs, accessors>>

\* the state of the collection and the state of the databases
collvars == <<docs, doc_indexes, oid_counter, _stores>>
dbvars == <<connections, dbs, accessors>>

(* ------------------------------ bounds --------------------------------- *)
\* inserts are enabled while fewer than MaxDocs documents are stored
MaxDocs == 3
\* ObjectIds the process may hand out as a fresh _id
MaxOid == 1
\* ObjectId generation times (seconds) range over 0..MaxTime
MaxTime == 0
\* $inc is enabled while the numbers it reads are below MaxNum
MaxNum == 2
\* addStore is enabled while fewer than MaxStores stores are registered
MaxStores == 2
\* a call is enabled while no store has received more than MaxLog events
MaxLog == 3

(* ------------------------------ values --------------------------------- *)
Undef == <<"undef">>
Null == <<"null">>
Num(n) == <<"num", n>>
Str(s) == <<"str", s>>
Bool(b) == <<"bool", b>>
Oid(n) == <<"oid", n>>
Arr(s) == <<"arr", s>>
Obj(f) == <<"obj", f>>

Tag(v) == v[1]
IsObj(v) == Tag(v) = "obj"
IsArr(v) == Tag(v) = "arr"
IsNum(v) == Tag(v) = "num"
IsStr(v) == Tag(v) = "str"

EmptyFields == [k \in {} |-> Undef]

\* o[k] of an object value (undefined when absent)
Get(o, k) == IF k \in DOMAIN o[2] THEN o[2][k] ELSE Undef
\* k in o
Has(o, k) == k \in DOMAIN o[2]
\* o[k] = v
Put(o, k, v) == Obj([f \in (DOMAIN o[2]) \cup {k} |-> IF f = k THEN v ELSE o[2][f]])
\* delete o[k]
Del(o, k) == Obj([f \in (DOMAIN o[2]) \ {k} |-> o[2][f]])

\* an ordered object literal, <<k1, v1>>, <<k2, v2>>, ... as an object value
RECURSIVE FromPairs(_)
FromPairs(ps) ==
    IF ps = <<>> THEN Obj(EmptyFields)
    ELSE Put(FromPairs(SubSeq(ps, 1, Len(ps) - 1)), ps[Len(ps)][1], ps[Len(ps)][2])

(* ------------------------------ strings -------------------------------- *)
DigitChars == <<"0", "1", "2", "3", "4", "5", "6", "7", "8", "9">>
IsDigit(c) == \E i \in 1..10 : DigitChars[i] = c

RECURSIVE DecStr(_)
DecStr(n) ==
    IF n < 10 THEN <<DigitChars[n + 1]>>
    ELSE DecStr(n \div 10) \o <<DigitChars[(n % 10) + 1]>>

\* _.toString of an integer
NumToString(n) == IF n < 0 THEN <<"-">> \o DecStr(0 - n) ELSE DecStr(n)

\* a replace that strips nothing
StripNothing(s) == s

\* s.replace(/\D/g, '')
StripNonDigits(s) == SelectSeq(s, IsDigit)

\* key.substr(0, 1) === '$'
IsModifierKey(key) == Len(key) > 0 /\ key[1] = "$"

\* /\./g.test(key)
HasDot(key) == \E i \in 1..Len(key) : key[i] = "."

\* /^[0-9]+$/.test(keypart)
IsNumeric(s) == Len(s) > 0 /\ \A i \in 1..Len(s) : IsDigit(s[i])

RECURSIVE Split(_)
\* keypath.split('.')
Split(s) ==
    IF ~HasDot(s) THEN <<s>>
    ELSE LET i == CHOOSE j \in 1..Len(s) : s[j] = "." /\ \A h \in 1..(j - 1) : s[h] # "."
         IN <<SubSeq(s, 1, i - 1)>> \o Split(SubSeq(s, i + 1, Len(s)))

RECURSIVE ToNumber(_)
\* _.toNumber of a digit string
ToNumber(s) ==
    IF s = <<>> THEN 0
    ELSE 10 * ToNumber(SubSeq(s, 1, Len(s) - 1))
         + (CHOOSE d \in 0..9 : DigitChars[d + 1] = s[Len(s)])

K_id == <<"_", "i", "d">>
K_timestamp == <<"t", "i", "m", "e", "s", "t", "a", "m", "p">>
K_a == <<"a">>
K_x == <<"x">>
K_y == <<"y">>

(* ------------------------------ ObjectId ------------------------------- *)
\* the hexadecimal string of the n-th ObjectId of the process: it holds a
\* non-decimal digit, so it differs from every digit-only _id
OidHex(n) == <<"f">> \o DecStr(n)

\* String(v), as used for a property key: doc_indexes[v]
PropKey(v) ==
    CASE IsStr(v) -> v[2]
      [] IsNum(v) -> NumToString(v[2])
      [] Tag(v) = "oid" -> OidHex(v[2])
      [] Tag(v) = "undef" -> <<"undefined">>
      [] Tag(v) = "null" -> <<"null">>
      [] Tag(v) = "bool" -> IF v[2] THEN <<"true">> ELSE <<"false">>
      [] OTHER -> <<"[object]">>

\* doc_indexes[key] read as undefined
NoIndex == -1

\* doc_indexes[key] (undefined when absent)
IndexOf(ix, key) == IF key \in DOMAIN ix THEN ix[key] ELSE NoIndex
\* doc_indexes[key] = pos
IndexPut(ix, key, pos) == [k \in (DOMAIN ix) \cup {key} |-> IF k = key THEN pos ELSE ix[k]]
\* delete doc_indexes[key]
IndexDel(ix, key) == [k \in (DOMAIN ix) \ {key} |-> ix[k]]

(* -------------------- Selector and Cursor (find) ----------------------- *)
\* limit of the options find builds when the caller passes none
FindLimit == 15
\* a cursor without a limit
NoLimit == -1

\* selectors: {} and {field: literal}
SelAll == <<"all">>
SelEq(field, v) == <<"eq", field, v>>
SelId(v) == SelEq(K_id, v)

\* the compiled matcher: a conjunction of clauses; a literal clause is deep
\* equality with the resolved field, or with an element of it when the field
\* is an array
Matches(sel, doc) ==
    CASE sel[1] = "all" -> TRUE
      [] sel[1] = "eq" ->
            /\ IsObj(doc)
            /\ LET f == Get(doc, sel[2])
               IN \/ f = sel[3]
                  \/ IsArr(f) /\ \E i \in 1..Len(f[2]) : f[2][i] = sel[3]

\* the first n elements of s (all of them when n is not positive)
Limit(s, n) == IF n <= 0 \/ Len(s) <= n THEN s ELSE SubSeq(s, 1, n)

\* cursor.fetch(): the matching documents, in the order of docs, past skip
\* (0 here) and up to limit
Fetch(ds, sel, limit) == Limit(SelectSeq(ds, LAMBDA d : Matches(sel, d)), limit)

\* Collection.find(selection).fetch() with the default options
Find(ds, sel) == Fetch(ds, sel, FindLimit)

\* Collection.findOne(selection): the first match as a list of 0 or 1
FindOne(ds, sel) == Limit(Fetch(ds, sel, FindLimit), 1)

(* ------------------------------ events --------------------------------- *)
\* this.db._emit(name, {collection: this, ...}): the event as a handler
\* receives it; docs and ix are the fields of args.collection at that
\* moment, args the documents of the payload (doc or docs)
Event(name, ds, ix, args) == [name |-> name, docs |-> ds, ix |-> ix, args |-> args]

\* a store of the database: on is the set of event names it has a handler
\* function for, all says whether it has the handler all, log is what its
\* handlers were called with, in order
Store(on, all) == [on |-> on, all |-> all, log |-> <<>>]

\* a dispatch that prefers the handler all
handlerAllFirst(store, name) ==
    IF store.all THEN "all" ELSE IF name \in store.on THEN name ELSE "none"

\* the handler of a store _emit calls for the event name: fn[command] when
\* it is a function, else fn.all when that is one, else none
handlerOf(store, name) ==
    IF name \in store.on THEN name ELSE IF store.all THEN "all" ELSE "none"

\* what a handler is called with: the event; handler is the function that
\* was called, nth how many handlers _emit called for this event before it,
\* argsName the value of args.name at the call ("" when it is not set; the
\* args object is the same for every store, and it is set before the first
\* call of an all handler)
Call(handler, e, nth, argsName) ==
    [handler |-> handler, nth |-> nth, argsName |-> argsName,
     name |-> e.name, docs |-> e.docs, ix |-> e.ix, args |-> e.args]

\* a forEach that stops after the first store
deliverFirst(stores, e) ==
    [i \in 1..Len(stores) |->
        IF i = 1 /\ handlerOf(stores[i], e.name) # "none"
        THEN [stores[i] EXCEPT !.log =
                Append(@, Call(handlerOf(stores[i], e.name), e, 0,
                               IF handlerOf(stores[i], e.name) = "all" THEN e.name ELSE ""))]
        ELSE stores[i]]

\* _.forEach(self._stores, ...) of _emit: fn[command](args) when the store
\* has that handler, else fn.all(args), after args.name = name, when it has
\* that one
deliver(stores, e) ==
    [i \in 1..Len(stores) |->
        IF handlerOf(stores[i], e.name) # "none"
        THEN [stores[i] EXCEPT !.log =
                Append(@, Call(handlerOf(stores[i], e.name), e,
                               Cardinality({k \in 1..(i - 1) :
                                              handlerOf(stores[k], e.name) # "none"}),
                               IF \E k \in 1..i : handlerOf(stores[k], e.name) = "all"
                               THEN e.name ELSE ""))]
        ELSE stores[i]]

RECURSIVE _emit(_, _, _)
\* the calls of MongoPortable.prototype._emit a collection call makes, in
\* order, from the j-th on
_emit(stores, ev, j) ==
    IF j > Len(ev) THEN stores
    ELSE _emit(deliver(stores, ev[j]), ev, j + 1)

(* ------------------------------ insert --------------------------------- *)
\* (_doc._id || ''): the falsy values a supplied _id can have
Falsy(v) ==
    \/ Tag(v) \in {"undef", "null"}
    \/ v = Str(<<>>)
    \/ v = Bool(FALSE)

\* the state after this.docs[idx] = v (idx undefined sets a non-index
\* property and leaves the elements alone; idx past the end leaves holes)
ArrSet(ds, idx, v) ==
    IF idx = NoIndex THEN ds
    ELSE [i \in 1..(IF idx + 1 > Len(ds) THEN idx + 1 ELSE Len(ds)) |->
            IF i = idx + 1 THEN v
            ELSE IF i <= Len(ds) THEN ds[i] ELSE Undef]

Failed(ds, ix, ctr) ==
    [err |-> TRUE, docs |-> ds, ix |-> ix, ctr |-> ctr, res |-> <<>>, ev |-> <<>>]

\* the end of insert: _doc is indexed and pushed, then the event is emitted
\* and _doc returned; st is the collection after the push
inserted(st, ctr, _doc) ==
    [err |-> FALSE, docs |-> st.docs, ix |-> st.ix, ctr |-> ctr, res |-> <<_doc>>,
     ev |-> <<Event("insert", st.docs, st.ix, <<_doc>>)>>]

\* Collection.prototype.insert(doc); ctr counts the ObjectIds handed out as
\* an _id and t is the generation time of the ObjectId made for the timestamp
insert(ds, ix, ctr, doc, t) ==
    IF ~IsObj(doc) THEN Failed(ds, ix, ctr)
    ELSE
    LET id0 == Get(doc, K_id)
        id1 == IF IsNum(id0) THEN Str(NumToString(id0[2])) ELSE id0
    IN  IF ~Falsy(id1) /\ ~IsStr(id1) THEN Failed(ds, ix, ctr)  \* .replace is not a function
        ELSE
        LET id2 == IF Falsy(id1) THEN <<>> ELSE StripNonDigits(id1[2])
            fresh == Len(id2) = 0
            id3 == IF fresh THEN Oid(ctr + 1) ELSE Str(id2)
            ctr2 == IF fresh THEN ctr + 1 ELSE ctr
            _doc == Put(Put(doc, K_id, id3), K_timestamp, Num(t))
        IN  inserted([docs |-> Append(ds, _doc),
                      ix |-> IndexPut(ix, PropKey(id3), Len(ds))], ctr2, _doc)

(* ----------------------------- modifiers ------------------------------- *)
K_inc == <<"$", "i", "n", "c">>
K_set == <<"$", "s", "e", "t">>
K_unset == <<"$", "u", "n", "s", "e", "t">>
K_push == <<"$", "p", "u", "s", "h">>
K_rename == <<"$", "r", "e", "n", "a", "m", "e">>
K_bit == <<"$", "b", "i", "t">>
K_length == <<"l", "e", "n", "g", "t", "h">>
K_pushAll == <<"$", "p", "u", "s", "h", "A", "l", "l">>
K_addToSet == <<"$", "a", "d", "d", "T", "o", "S", "e", "t">>
K_pop == <<"$", "p", "o", "p">>
K_pull == <<"$", "p", "u", "l", "l">>
K_pullAll == <<"$", "p", "u", "l", "l", "A", "l", "l">>
K_each == <<"$", "e", "a", "c", "h">>

\* the keys of _modifiers
ModifierKeys == {K_inc, K_set, K_unset, K_push, K_pushAll, K_addToSet, K_pop, K_pull,
                 K_pullAll, K_rename, K_bit}

_noCreateModifiers == {K_unset, K_pop, K_rename, K_pull, K_pullAll}

Threw(v) == [st |-> "throw", v |-> v]
Ok(v) == [st |-> "ok", v |-> v]

\* typeof v === "object"
TypeofObject(v) == Tag(v) \in {"obj", "arr", "null", "oid"}

\* target[field], field in target, target[field] = v and delete target[field]
\* for a target that is an object (field a string) or an array (field a number)
CGet(c, f) == IF IsArr(c) THEN (IF f < Len(c[2]) THEN c[2][f + 1] ELSE Undef) ELSE Get(c, f)
CHas(c, f) == IF IsArr(c) THEN f < Len(c[2]) ELSE Has(c, f)
CPut(c, f, v) == IF IsArr(c) THEN Arr(ArrSet(c[2], f, v)) ELSE Put(c, f, v)

\* keypart in doc, for a string keypart
KeyIn(node, keypart) ==
    CASE IsObj(node) -> Has(node, keypart)
      [] IsArr(node) -> \/ keypart = K_length
                        \/ /\ IsNumeric(keypart)
                           /\ NumToString(ToNumber(keypart)) = keypart
                           /\ ToNumber(keypart) < Len(node[2])
      [] OTHER -> FALSE

\* a padding that pushes nothing
PadNone(a, k) == a

RECURSIVE PadNull(_, _)
\* while (doc.length < keypart) doc.push(null)
PadNull(a, k) == IF Len(a) < k THEN PadNull(Append(a, Null), k) ELSE a

\* Selector._f._equal(a, b): deep equality
_equal(a, b) == a = b

\* Selector._compileSelector(arg) for the argument of $pull: the matcher of
\* {} and of {field: literal}
compilePull(arg) ==
    IF DOMAIN arg[2] = {} THEN SelAll
    ELSE LET k == CHOOSE f \in DOMAIN arg[2] : TRUE IN SelEq(k, arg[2][k])

\* the first key of arg is "$each" (for an object with that one key)
isEach(arg) == IsObj(arg) /\ DOMAIN arg[2] = {K_each}

RECURSIVE addValues(_, _, _)
\* _.forEach(values, ...) of $addToSet, from the j-th value on: a value is
\* pushed unless an element of x equals it
addValues(x, values, j) ==
    IF j > Len(values) THEN x
    ELSE IF \E i \in 1..Len(x) : _equal(values[j], x[i])
         THEN addValues(x, values, j + 1)
         ELSE addValues(Append(x, values[j]), values, j + 1)

\* a $inc that stores its argument
incTo(x, arg) == arg

\* target[field] += arg
incBy(x, arg) == Num(x[2] + arg[2])

\* a $pull that keeps what it should take out
pullKeep(x, arg) == x

\* the array out of $pull: the elements of x that do not match arg as a
\* selector (arg an object that is no array), or that do not equal arg; the
\* arguments of $pull here are numbers, strings, arrays and plain objects
pullOut(x, arg) ==
    IF IsObj(arg)
    THEN SelectSeq(x, LAMBDA e : ~Matches(compilePull(arg), e))
    ELSE SelectSeq(x, LAMBDA e : ~_equal(e, arg))

\* _modifiers[key](target, field, arg) for the modifiers other than $rename:
\* the target after the call
mod(key, target, field, arg) ==
    CASE key = K_inc ->
            IF ~IsNum(arg) THEN Threw(target)
            ELSE IF CHas(target, field)
                 THEN IF ~IsNum(CGet(target, field)) THEN Threw(target)
                      ELSE Ok(CPut(target, field, incBy(CGet(target, field), arg)))
                 ELSE Ok(CPut(target, field, arg))
      [] key = K_set -> Ok(CPut(target, field, arg))
      [] key = K_unset ->
            IF IsArr(target)
            THEN (IF CHas(target, field) THEN Ok(CPut(target, field, Null)) ELSE Ok(target))
            ELSE Ok(Del(target, field))
      [] key = K_push ->
            LET x == CGet(target, field)
            IN  IF x = Undef THEN Ok(CPut(target, field, Arr(<<arg>>)))
                ELSE IF ~IsArr(x) THEN Threw(target)
                ELSE Ok(CPut(target, field, Arr(Append(x[2], arg))))
      [] key = K_pushAll ->
            IF ~IsArr(arg) THEN Threw(target)
            ELSE IF CGet(target, field) = Undef THEN Ok(CPut(target, field, arg))
            ELSE IF ~IsArr(CGet(target, field)) THEN Threw(target)
            ELSE Ok(CPut(target, field, Arr(CGet(target, field)[2] \o arg[2])))
      [] key = K_addToSet ->
            IF CGet(target, field) = Undef THEN Ok(CPut(target, field, Arr(<<arg>>)))
            ELSE IF ~IsArr(CGet(target, field)) THEN Threw(target)
            ELSE Ok(CPut(target, field,
                         Arr(addValues(CGet(target, field)[2],
                                       IF isEach(arg) THEN Get(arg, K_each)[2] ELSE <<arg>>, 1))))
      [] key = K_pop ->
            IF CGet(target, field) = Undef THEN Ok(target)
            ELSE IF ~IsArr(CGet(target, field)) THEN Threw(target)
            ELSE IF IsNum(arg) /\ arg[2] < 0
                 THEN Ok(CPut(target, field, Arr(SubSeq(CGet(target, field)[2], 2,
                                                       Len(CGet(target, field)[2])))))
                 ELSE Ok(CPut(target, field, Arr(SubSeq(CGet(target, field)[2], 1,
                                                       Len(CGet(target, field)[2]) - 1))))
      [] key = K_pull ->
            IF CGet(target, field) = Undef THEN Ok(target)
            ELSE IF ~IsArr(CGet(target, field)) THEN Threw(target)
            ELSE Ok(CPut(target, field, Arr(pullOut(CGet(target, field)[2], arg))))
      [] key = K_pullAll ->
            IF ~IsArr(arg) THEN Threw(target)
            ELSE IF CGet(target, field) = Undef THEN Ok(target)
            ELSE IF ~IsArr(CGet(target, field)) THEN Threw(target)
            ELSE Ok(CPut(target, field,
                         Arr(SelectSeq(CGet(target, field)[2],
                                       LAMBDA e : \A j \in 1..Len(arg[2]) : ~_equal(e, arg[2][j])))))
      [] OTHER -> Threw(target)   \* $bit

\* the array node after its element k was walked with result r
inArray(padded, k, r) == [st |-> r.st, v |-> Arr(ArrSet(padded, k, r.v))]

\* the object node after its property keypart was walked with result r
inObject(node, keypart, r) == [st |-> r.st, v |-> Put(node, keypart, r.v)]

\* doc[keypart] of an object, after doc[keypart] = {} when it is absent
childOf(node, keypart) == IF Has(node, keypart) THEN Get(node, keypart) ELSE Obj(EmptyFields)

\* doc[keypart] of a padded array, after doc.push({}) when keypart is its length
elementOf(padded, k) == IF Len(padded) = k THEN Obj(EmptyFields) ELSE padded[k + 1]

RECURSIVE findModTarget(_, _, _, _, _, _, _)
\* Collection._findModTarget(doc, keyparts, no_create, forbid_array) followed
\* by the modifier on the target it returns: node is the value reached at
\* keyparts[i]; the result is node after the walk and the modifier
\* (st = "undefined": the walk returned undefined and nothing is changed)
findModTarget(node, keyparts, i, no_create, forbid_array, key, arg) ==
    LET keypart == keyparts[i]
        isLast == (i = Len(keyparts))
    IN
    IF no_create /\ Tag(node) = "null" THEN Threw(node)        \* keypart in null
    ELSE IF no_create /\ (~TypeofObject(node) \/ ~KeyIn(node, keypart))
    THEN [st |-> "undefined", v |-> node]
    ELSE IF IsArr(node) THEN
        IF forbid_array THEN Threw(node)                          \* null target
        ELSE IF ~IsNumeric(keypart) THEN Threw(node)
        ELSE
        LET k == ToNumber(keypart)
            padded == PadNull(node[2], k)
        IN  IF isLast THEN mod(key, Arr(padded), k, arg)
            ELSE IF ~TypeofObject(elementOf(padded, k)) THEN Threw(node)
            ELSE inArray(padded, k,
                         findModTarget(elementOf(padded, k), keyparts, i + 1,
                                       no_create, forbid_array, key, arg))
    ELSE IF ~IsObj(node) THEN Threw(node)      \* a property of a primitive, undefined or null
    ELSE IF isLast THEN mod(key, node, keypart, arg)
    ELSE inObject(node, keypart,
                  findModTarget(childOf(node, keypart), keyparts, i + 1,
                                no_create, forbid_array, key, arg))

RECURSIVE GetPath(_, _, _)
\* the value at keyparts[i..] under node, through objects only
GetPath(node, keyparts, i) ==
    IF i > Len(keyparts) THEN node
    ELSE GetPath(Get(node, keyparts[i]), keyparts, i + 1)

\* a $rename that ends with the document as it was
renamedNot(doc, dst) == Ok(doc)

\* the end of $rename: dst is the walk to the target path and the assignment
renamed(doc, dst) == IF dst.st = "throw" THEN Threw(doc) ELSE Ok(dst.v)

\* $rename once the source was walked and deleted (src)
renameFrom(doc, keypath, arg, src) ==
    IF src.st = "undefined" THEN Ok(doc)
    ELSE IF src.st = "throw" THEN Threw(doc)
    ELSE IF IsStr(arg) /\ arg[2] = keypath THEN Threw(doc)
    ELSE IF ~IsStr(arg) THEN Threw(doc)
    ELSE renamed(doc, findModTarget(src.v, Split(arg[2]), 1, FALSE, TRUE, K_set,
                                    GetPath(doc, Split(keypath), 1)))

\* _modifiers.$rename(target, field, arg, keypath, doc) after the walk to target
rename(doc, keypath, arg) ==
    renameFrom(doc, keypath, arg,
               findModTarget(doc, Split(keypath), 1, TRUE, TRUE, K_unset, Null))

\* one pass of the loop of _applyModifier: the modifier at key path keypath
applyPath(_docUpdate, key, keypath, arg) ==
    IF key = K_rename THEN rename(_docUpdate, keypath, arg)
    ELSE findModTarget(_docUpdate, Split(keypath), 1,
                       key \in _noCreateModifiers, FALSE, key, arg)

RECURSIVE applyPaths(_, _, _, _)
\* the loop of _applyModifier over the key paths of val, from the j-th on; r
\* is the document so far
applyPaths(r, key, val, j) ==
    IF r.st = "throw" \/ j > Len(val) THEN r
    ELSE applyPaths(applyPath(r.v, key, val[j][1], val[j][2]), key, val, j + 1)

\* _applyModifier(_docUpdate, key, val)
_applyModifier(_docUpdate, key, val) ==
    IF key \notin ModifierKeys THEN Threw(_docUpdate)
    ELSE applyPaths(Ok(_docUpdate), key, val, 1)

(* ------------------------------ update --------------------------------- *)
\* the value update[key]: the value of a modifier key is written as the
\* ordered list of its <<keypath, arg>> pairs, any other as a value
UVal(key, val) == IF IsModifierKey(key) THEN FromPairs(val) ELSE val

RECURSIVE toObject(_)
\* the update document as a plain object
toObject(update) ==
    IF update = <<>> THEN Obj(EmptyFields)
    ELSE LET e == update[Len(update)]
         IN  Put(toObject(SubSeq(update, 1, Len(update) - 1)), e[1], UVal(e[1], e[2]))

RECURSIVE scanKeys(_, _, _, _, _)
\* the first loop over the keys of update, from the j-th on: override, or a throw
scanKeys(update, options, j, hasModifier, override) ==
    IF j > Len(update) THEN [st |-> "ok", override |-> override]
    ELSE
    LET modifier == IsModifierKey(update[j][1])
        hasMod == hasModifier \/ modifier
    IN  IF ~Falsy(options.updateAsMongo)
        THEN IF hasMod /\ ~modifier THEN [st |-> "throw", override |-> override]
             ELSE IF ~hasMod /\ options.multi THEN [st |-> "throw", override |-> override]
             ELSE scanKeys(update, options, j + 1, hasMod, ~hasMod)
        ELSE scanKeys(update, options, j + 1, hasMod, options.override)

RECURSIVE overrideKeys(_, _, _)
\* the loop of the override branch: the keys that are neither $-prefixed nor
\* dotted are deleted from the copy of update
overrideKeys(_docUpdate, update, j) ==
    IF j > Len(update) THEN _docUpdate
    ELSE LET key == update[j][1]
         IN  IF IsModifierKey(key) \/ HasDot(key)
             THEN overrideKeys(_docUpdate, update, j + 1)
             ELSE overrideKeys(Del(_docUpdate, key), update, j + 1)

\* one pass of the loop of the other branch: a modifier is applied, another
\* key is assigned when the document has it and it is not _id
assignKey(_docUpdate, key, val) ==
    IF IsModifierKey(key) THEN _applyModifier(_docUpdate, key, val)
    ELSE IF Tag(Get(_docUpdate, key)) \notin {"undef", "null"} /\ key # K_id
         THEN Ok(Put(_docUpdate, key, val))
         ELSE Ok(_docUpdate)

RECURSIVE assignKeys(_, _, _)
\* the loop of the other branch over the keys of update, from the j-th on; r
\* is the document so far
assignKeys(r, update, j) ==
    IF r.st = "throw" \/ j > Len(update) THEN r
    ELSE assignKeys(assignKey(r.v, update[j][1], update[j][2]), update, j + 1)

\* the body of the loop over the found documents, up to updatedDocs.push:
\* the new document computed from doc, or a throw
updateDoc(doc, update, options) ==
    LET k == scanKeys(update, options, 1, FALSE, FALSE)
    IN  IF k.st = "throw" THEN Threw(doc)
        ELSE IF ~IsObj(doc) THEN Threw(doc)        \* a property of undefined
        ELSE IF k.override
             THEN Ok(Put(overrideKeys(toObject(update), update, 1), K_id, Get(doc, K_id)))
             ELSE assignKeys(Ok(doc), update, 1)

\* the end of a pass of the loop: updatedDocs.push(_docUpdate) and
\* this.docs[this.doc_indexes[_docUpdate._id]] = _docUpdate; r is the new
\* document or a throw, st the loop's state
written(st, ix, r) ==
    IF r.st = "throw" THEN [err |-> TRUE, docs |-> st.docs, updatedDocs |-> <<>>]
    ELSE [err |-> FALSE,
          docs |-> ArrSet(st.docs, IndexOf(ix, PropKey(Get(r.v, K_id))), r.v),
          updatedDocs |-> Append(st.updatedDocs, r.v)]

RECURSIVE updateLoop(_, _, _, _, _, _)
\* for (i = 0; i < docs.length; i++) over the found documents: each new
\* document is written to this.docs before the next one is computed
updateLoop(st, ix, found, i, update, options) ==
    IF st.err \/ i > Len(found) THEN st
    ELSE updateLoop(written(st, ix, updateDoc(found[i], update, options)),
                    ix, found, i + 1, update, options)

\* the documents update works on: find(selection, null, {forceFetch: true})
\* with multi, else findOne(selection)
updateTargets(ds, selection, options) ==
    IF options.multi THEN Fetch(ds, selection, NoLimit) ELSE FindOne(ds, selection)

\* an upsert that reports nothing inserted
upsertedNothing(r) == [r EXCEPT !.res = [updated |-> <<>>, inserted |-> <<>>]]

\* the result of update when it inserted: r is the result of insert
upserted(r) == [r EXCEPT !.res = [updated |-> <<>>, inserted |-> r.res]]

\* an update that emits its event whether or not the loop threw
updatedAnyway(r, ix, ctr) ==
    [err |-> r.err, docs |-> r.docs, ix |-> ix, ctr |-> ctr,
     res |-> [updated |-> r.updatedDocs, inserted |-> <<>>],
     ev |-> <<Event("update", r.docs, ix, r.updatedDocs)>>]

\* the result of update when it updated: r is the state after the loop; the
\* event is emitted when the loop ended without a throw
updated(r, ix, ctr) ==
    [err |-> r.err, docs |-> r.docs, ix |-> ix, ctr |-> ctr,
     res |-> [updated |-> r.updatedDocs, inserted |-> <<>>],
     ev |-> IF r.err THEN <<>> ELSE <<Event("update", r.docs, ix, r.updatedDocs)>>]

\* update once the documents are found
updateFound(ds, ix, ctr, found, upd, options, t) ==
    IF Len(found) = 0
    THEN IF options.upsert
         THEN upserted(insert(ds, ix, ctr, toObject(upd), t))
         ELSE [err |-> FALSE, docs |-> ds, ix |-> ix, ctr |-> ctr,
               res |-> [updated |-> <<>>, inserted |-> <<>>], ev |-> <<>>]
    ELSE updated(updateLoop([err |-> FALSE, docs |-> ds, updatedDocs |-> <<>>],
                            ix, found, 1, upd, options), ix, ctr)

\* the event of the find or findOne a call starts with, ahead of the events
\* of the rest of the call (r)
afterFind(name, ds, ix, r) == [r EXCEPT !.ev = <<Event(name, ds, ix, <<>>)>> \o @]

\* Collection.prototype.update(selection, update, options)
update(ds, ix, ctr, selection, upd, options, t) ==
    afterFind(IF options.multi THEN "find" ELSE "findOne", ds, ix,
              updateFound(ds, ix, ctr, updateTargets(ds, selection, options),
                          upd, options, t))

(* ------------------------------ remove --------------------------------- *)
\* ds[i]._id, for the 1-based position i (undefined for a hole)
IdAt(ds, i) == IF IsObj(ds[i]) THEN Get(ds[i], K_id) ELSE Undef

\* this.docs.splice(idx, 1): an undefined idx is position 0
splice(ds, idx) ==
    LET at == IF idx = NoIndex THEN 0 ELSE idx
    IN  IF at >= Len(ds) THEN ds
        ELSE SubSeq(ds, 1, at) \o SubSeq(ds, at + 2, Len(ds))

\* the callback of cursor.forEach: st is the state so far, doc the document
removeDoc(st, doc, key) ==
    IF ~IsObj(doc) THEN [err |-> TRUE, docs |-> st.docs, ix |-> st.ix, res |-> <<>>]  \* doc._id of undefined
    ELSE [err |-> FALSE,
          docs |-> splice(st.docs, IndexOf(st.ix, key)),
          ix |-> IndexDel(st.ix, key),
          res |-> Append(st.res, doc)]

RECURSIVE removeLoop(_, _, _)
\* cursor.forEach over the fetched documents
removeLoop(st, found, i) ==
    IF st.err \/ i > Len(found) THEN st
    ELSE removeLoop(removeDoc(st, found[i], PropKey(IdAt(found, i))), found, i + 1)

\* a remove that emits its event with the last removed document still in
\* docs
removedMidway(r, ctr) ==
    [err |-> r.err, docs |-> r.docs, ix |-> r.ix, ctr |-> ctr, res |-> r.res,
     ev |-> IF r.err THEN <<>>
            ELSE <<Event("remove",
                         IF r.res = <<>> THEN r.docs ELSE Append(r.docs, r.res[Len(r.res)]),
                         r.ix, r.res)>>]

\* the end of remove: the event is emitted when forEach ended without a
\* throw; r is the state after forEach
removed(r, ctr) ==
    [err |-> r.err, docs |-> r.docs, ix |-> r.ix, ctr |-> ctr, res |-> r.res,
     ev |-> IF r.err THEN <<>> ELSE <<Event("remove", r.docs, r.ix, r.res)>>]

\* Collection.prototype.remove(selection)
remove(ds, ix, ctr, selection) ==
    afterFind("find", ds, ix,
              removed(removeLoop([err |-> FALSE, docs |-> ds, ix |-> ix, res |-> <<>>],
                                 Find(ds, selection), 1), ctr))

\* a function value
Fn == <<"fn">>

\* Collection.prototype.remove(selection, callback); _.isFunction(selection)
\* is false for the selections of the model
removeWith(ds, ix, ctr, selection, callback) ==
    IF callback \notin {Undef, Null} /\ callback # Fn
    THEN Failed(ds, ix, ctr)                   \* callback must be a function
    ELSE remove(ds, ix, ctr, selection)

(* ------------------------------ inputs --------------------------------- *)
Times == 0..MaxTime

S7 == Str(<<"7">>)
S8 == Str(<<"8">>)
Ss == Str(<<"s">>)

\* documents handed to insert
InsertDocs ==
    { FromPairs(<< <<K_a, Num(1)>> >>),                                 \* {a: 1}
      FromPairs(<< <<K_id, Num(7)>>, <<K_a, Num(1)>> >>),               \* {_id: 7, a: 1}
      FromPairs(<< <<K_id, Str(<<"a", "7">>)>>, <<K_a, Ss>> >>),        \* {_id: "a7", a: "s"}
      FromPairs(<< <<K_id, S8>>, <<K_a, Ss>> >>),                       \* {_id: "8", a: "s"}
      FromPairs(<< <<K_id, Str(<<"x">>)>>, <<K_a, Ss>> >>),             \* {_id: "x", a: "s"}
      FromPairs(<< <<K_id, Bool(TRUE)>>, <<K_a, Num(1)>> >>),           \* {_id: true, a: 1}
      Null }

\* selectors handed to find, update and remove
Selectors == { SelAll, SelId(S7), SelId(Oid(1)), SelEq(K_a, Num(1)) }

\* options of update: multi, upsert and override are written as the boolean
\* their truthiness gives; updateAsMongo is the value passed (undefined when
\* the options do not set it)
NoOptions == [multi |-> FALSE, upsert |-> FALSE, updateAsMongo |-> Undef, override |-> FALSE]
Multi == [NoOptions EXCEPT !.multi = TRUE]
AsMongo == [NoOptions EXCEPT !.updateAsMongo = Bool(TRUE)]
Lenient == [NoOptions EXCEPT !.updateAsMongo = Bool(FALSE)]
LenientMulti == [Lenient EXCEPT !.multi = TRUE]
LenientOverride == [Lenient EXCEPT !.override = TRUE]
AsMongoMulti == [AsMongo EXCEPT !.multi = TRUE]
Upsert == [NoOptions EXCEPT !.upsert = TRUE]
Override == [NoOptions EXCEPT !.override = TRUE]

U_setX == << <<K_set, << <<K_x, Num(1)>> >> >> >>                       \* {$set: {x: 1}}
U_incA == << <<K_inc, << <<K_a, Num(1)>> >> >> >>                       \* {$inc: {a: 1}}
U_setId == << <<K_set, << <<K_id, S8>> >> >> >>                         \* {$set: {_id: "8"}}
U_unsetId == << <<K_unset, << <<K_id, Str(<<>>)>> >> >> >>              \* {$unset: {_id: ""}}
U_renameId == << <<K_rename, << <<K_id, Str(K_y)>> >> >> >>             \* {$rename: {_id: "y"}}
U_incId == << <<K_inc, << <<K_id, Num(1)>> >> >> >>                     \* {$inc: {_id: 1}}
U_unknown == << <<<<"$", "f", "o", "o">>, << <<K_a, Num(1)>> >> >> >>   \* {$foo: {a: 1}}
U_mixed == << <<K_set, << <<K_x, Num(1)>> >> >>, <<K_a, Num(1)>> >>     \* {$set: {x: 1}, a: 1}
U_fields == << <<K_a, Ss>> >>                                           \* {a: "s"}

\* update calls, <<selection, update, options>>: modifiers on ordinary fields
FieldCalls ==
    { <<SelAll, U_setX, Multi>>,
      <<SelId(S7), U_setX, NoOptions>> }

\* update calls: modifiers addressed at _id
IdCalls ==
    { <<SelId(S7), U_setId, AsMongo>>,
      <<SelId(S7), U_unsetId, AsMongo>>,
      <<SelId(S7), U_renameId, AsMongo>>,
      <<SelId(S7), U_incId, AsMongo>>,
      <<SelAll, U_setX, Multi>> }

\* the update reads a number of some stored document that $inc may raise
IncBounded(upd) ==
    (\E j \in 1..Len(upd) : upd[j][1] = K_inc) =>
        \A i \in 1..Len(docs) :
            (IsObj(docs[i]) /\ IsNum(Get(docs[i], K_a))) => Get(docs[i], K_a)[2] < MaxNum

(* --------------------------- state machine ----------------------------- *)
Init ==
    /\ docs = <<>>
    /\ doc_indexes = [k \in {} |-> 0]
    /\ oid_counter = 0
    /\ _stores = <<>>
    /\ last = [op |-> "none", arg |-> <<>>, err |-> FALSE, res |-> <<>>]
    /\ connections = {}
    /\ dbs = <<>>
    /\ accessors = [k \in {} |-> 0]

\* the call returns or throws: r is the state it leaves and its result
\* the stores after the events of a call, within the bound on their logs
Notified(stores) ==
    /\ \A i \in 1..Len(stores) : Len(stores[i].log) <= MaxLog
    /\ _stores' = stores

\* the call returns or throws: r is the state it leaves, its result and the
\* events it emitted
Commit(op, arg, r) ==
    /\ Len(r.docs) <= MaxDocs
    /\ r.ctr <= MaxOid
    /\ docs' = r.docs
    /\ doc_indexes' = r.ix
    /\ oid_counter' = r.ctr
    /\ Notified(_emit(_stores, r.ev, 1))
    /\ last' = [op |-> op, arg |-> arg, err |-> r.err, res |-> r.res]
    /\ UNCHANGED dbvars

\* coll.insert(doc), the document drawn from given
InsertOf(given) ==
    \E doc \in given, t \in Times :
        Commit("insert", doc, insert(docs, doc_indexes, oid_counter, doc, t))

\* coll.insert(doc)
Insert == InsertOf(InsertDocs)

\* coll.update(selection, update, options), the call drawn from calls
Update(calls) ==
    \E call \in calls, t \in Times :
        /\ IncBounded(call[2])
        /\ Commit("update", call,
                  update(docs, doc_indexes, oid_counter, call[1], call[2], call[3], t))

\* coll.remove(selection)
Remove ==
    \E selection \in Selectors :
        Commit("remove", selection, remove(docs, doc_indexes, oid_counter, selection))

UpdateFields == Update(FieldCalls)
UpdateIds == Update(IdCalls)

Next == Insert \/ UpdateFields \/ Remove

Spec == Init /\ [][Next]_vars

NextId == Insert \/ UpdateIds \/ Remove

SpecId == Init /\ [][NextId]_vars

\* update calls that can raise an error
ErrCalls ==
    { <<SelAll, U_incA, Multi>>,
      <<SelAll, U_unknown, Multi>>,
      <<SelEq(K_a, Num(1)), U_mixed, AsMongo>>,
      <<SelId(S7), U_incId, AsMongo>> }

UpdateErrs == Update(ErrCalls)

NextErr == Insert \/ UpdateErrs \/ Remove

SpecErr == Init /\ [][NextErr]_vars

(* ----------------------- update modes (specification) ----------------- *)
S9 == Str(<<"9">>)

U_empty == <<>>                                                         \* {}
U_repl == << <<K_x, Num(2)>> >>                                         \* {x: 2}
U_mixedRev == << <<K_a, Ss>>, <<K_set, << <<K_x, Num(1)>> >> >> >>      \* {a: "s", $set: {x: 1}}
U_fieldsId == << <<K_a, Ss>>, <<K_y, Num(1)>>, <<K_id, S9>> >>          \* {a: "s", y: 1, _id: "9"}

\* documents handed to insert where the update modes are exercised
ModeDocs ==
    { FromPairs(<< <<K_a, Num(1)>> >>),                                 \* {a: 1}
      FromPairs(<< <<K_id, Num(7)>>, <<K_a, Num(1)>>, <<K_x, Num(1)>> >>),  \* {_id: 7, a: 1, x: 1}
      FromPairs(<< <<K_id, S8>>, <<K_a, Null>> >>) }                    \* {_id: "8", a: null}

InsertMode == InsertOf(ModeDocs)

\* update calls: update documents without modifiers, or mixing both kinds
\* of keys, in each mode
ModeCalls ==
    { <<SelEq(K_a, Num(1)), U_repl, AsMongo>>,
      <<SelAll, U_repl, LenientOverride>>,
      <<SelEq(K_a, Num(1)), U_mixed, AsMongo>>,
      <<SelEq(K_a, Num(1)), U_mixedRev, AsMongo>>,
      <<SelEq(K_a, Num(1)), U_fields, NoOptions>>,
      <<SelEq(K_a, Num(1)), U_mixedRev, NoOptions>>,
      <<SelAll, U_fields, AsMongoMulti>>,
      <<SelAll, U_empty, AsMongoMulti>>,
      <<SelAll, U_fields, Lenient>>,
      <<SelAll, U_fieldsId, LenientMulti>> }

UpdateModes == Update(ModeCalls)

NextMode == InsertMode \/ UpdateModes \/ Remove

SpecMode == Init /\ [][NextMode]_vars

(* -------------------------- upsert (specification) --------------------- *)
StrictUpsert == [AsMongo EXCEPT !.upsert = TRUE]

U_idDoc == << <<K_id, Str(<<"a", "7">>)>>, <<K_a, Num(1)>> >>           \* {_id: "a7", a: 1}

\* update calls whose selector may match nothing, with and without upsert
UpsertCalls ==
    { <<SelId(S7), U_setX, Upsert>>,
      <<SelId(S7), U_idDoc, Upsert>>,
      <<SelId(S9), U_repl, StrictUpsert>>,
      <<SelId(S9), U_fields, Lenient>> }

UpdateUpserts == Update(UpsertCalls)

NextUpsert == InsertMode \/ UpdateUpserts \/ Remove

SpecUpsert == Init /\ [][NextUpsert]_vars

(* ------------------------- stores (specification) ---------------------- *)
\* the stores handed to addStore: one with a handler for each of insert,
\* update and remove, one with the handler all only, one with a handler for
\* insert and the handler all
StoreKinds ==
    { Store({"insert", "update", "remove"}, FALSE),
      Store({}, TRUE),
      Store({"insert"}, TRUE) }

\* db.addStore(store), called before the first call on the collection
AddStore ==
    \E store \in StoreKinds :
        /\ Len(_stores) < MaxStores
        /\ last.op = "none"
        /\ _stores' = Append(_stores, store)
        /\ UNCHANGED <<docs, doc_indexes, oid_counter, last>>
        /\ UNCHANGED dbvars

\* update calls in front of stores: on every document, an upsert, and one
\* that throws on a document whose a is no number
ObsCalls ==
    { <<SelAll, U_setX, Multi>>,
      <<SelId(S7), U_setX, Upsert>>,
      <<SelAll, U_incA, Multi>> }

UpdateObs == Update(ObsCalls)

NextObs == AddStore \/ InsertMode \/ UpdateObs \/ Remove

SpecObs == Init /\ [][NextObs]_vars

(* ------------------------------ claims --------------------------------- *)
\* the positions of docs an update call works on: every match with multi,
\* else the first match
SelectedPos(ds, sel, options) ==
    LET m == {i \in 1..Len(ds) : Matches(sel, ds[i])}
    IN  IF options.multi THEN m ELSE {i \in m : \A j \in m : i <= j}

\* how many selected positions are at or before position i
Rank(S, i) == Cardinality({j \in S : j <= i})

\* C1: after any sequence of insert, update and remove calls, every stored
\* document d is at the position the index gives for its _id:
\* docs[doc_indexes[d._id]] === d.
C1_IndexPointsAtDocument ==
    \A i \in 1..Len(docs) :
        IsObj(docs[i]) => IndexOf(doc_indexes, PropKey(IdAt(docs, i))) = i - 1

\* C2: no two documents stored in the collection have the same _id, also
\* after inserts that supply an _id normalizing to the same digit string.
C2_DistinctIds ==
    \A i, j \in 1..Len(docs) : i < j => IdAt(docs, i) # IdAt(docs, j)

\* C3: once remove({_id: id}) has returned, find({_id: id}).fetch() is empty.
C3_RemovedIdNotFound ==
    (last.op = "remove" /\ ~last.err /\ last.arg[1] = "eq" /\ last.arg[2] = K_id)
        => Find(docs, last.arg) = <<>>

\* C4: remove(selector) deletes exactly the documents matching the selector,
\* returns exactly those, and leaves the others stored in their order.
C4_RemoveExactlyMatches ==
    [][(last'.op = "remove" /\ ~last'.err) =>
          /\ docs' = SelectSeq(docs, LAMBDA d : ~Matches(last'.arg, d))
          /\ last'.res = SelectSeq(docs, LAMBDA d : Matches(last'.arg, d))]_vars

\* C5: an update call that raises an error leaves docs and doc_indexes as
\* they were before the call, also with multi when a later document fails.
C5_FailedUpdateChangesNothing ==
    [][(last'.op = "update" /\ last'.err) =>
          (docs' = docs /\ doc_indexes' = doc_indexes)]_vars

\* C6: no update call changes the _id of a stored document: for every
\* position i, docs[i]._id is the same before and after the call.
C6_UpdateKeepsIds ==
    [][last'.op = "update" =>
          \A i \in 1..Len(docs) : i <= Len(docs') /\ IdAt(docs', i) = IdAt(docs, i)]_vars

\* C7: an update writes each resulting document at the position of the
\* document it was computed from; the number of documents, the documents
\* not selected and doc_indexes are unchanged.
C7_UpdateInPlace ==
    [][(last'.op = "update" /\ ~last'.err
          /\ SelectedPos(docs, last'.arg[1], last'.arg[3]) # {}) =>
          LET S == SelectedPos(docs, last'.arg[1], last'.arg[3])
          IN  /\ Len(docs') = Len(docs)
              /\ doc_indexes' = doc_indexes
              /\ \A i \in 1..Len(docs) :
                    /\ i \notin S => docs'[i] = docs[i]
                    /\ i \in S => docs'[i] = last'.res.updated[Rank(S, i)]]_vars

\* C8: update({}, {$set: {x: 1}}, {multi: true}) leaves every stored
\* document with x equal to 1 and returns updated.count equal to the number
\* of stored documents.
C8_SetAllSetsAll ==
    (last.op = "update" /\ last.arg = <<SelAll, U_setX, Multi>>) =>
        /\ ~last.err
        /\ \A i \in 1..Len(docs) : IsObj(docs[i]) /\ Get(docs[i], K_x) = Num(1)
        /\ Len(last.res.updated) = Len(docs)

\* C9: immediately after insert(d), find({_id: d'._id}).fetch() returns
\* exactly one document, the stored copy d' of d.
C9_InsertThenFindById ==
    (last.op = "insert" /\ ~last.err) =>
        Find(docs, SelId(Get(last.res[1], K_id))) = <<last.res[1]>>

RECURSIVE C10_Digits(_)
\* the decimal digits of a string, in order
C10_Digits(str) ==
    IF str = <<>> THEN <<>>
    ELSE IF Head(str) \in {"0", "1", "2", "3", "4", "5", "6", "7", "8", "9"}
         THEN <<Head(str)>> \o C10_Digits(Tail(str))
         ELSE C10_Digits(Tail(str))

\* the digits of the string form of a supplied _id (none when it is absent)
C10_GivenDigits(v) ==
    CASE IsNum(v) -> C10_Digits(NumToString(v[2]))
      [] IsStr(v) -> C10_Digits(v[2])
      [] OTHER -> <<>>

HasModifier(upd) == \E j \in 1..Len(upd) : IsModifierKey(upd[j][1])
HasField(upd) == \E j \in 1..Len(upd) : ~IsModifierKey(upd[j][1])

\* the update call of the step works on a stored document
UpdateOfStored ==
    /\ last'.op = "update"
    /\ SelectedPos(docs, last'.arg[1], last'.arg[3]) # {}

\* C11: when update takes the replacement branch (strict mode and an update
\* document without $-prefixed key, or lenient mode with override), the
\* stored document becomes the fields of the update document plus the
\* original _id: update({a: 1}, {x: 2}) in strict mode leaves {_id: ..., x: 2}.
C11_ReplacementIsUpdatePlusId ==
    [][(/\ UpdateOfStored
        /\ ~last'.err
        /\ last'.arg[2] # <<>>
        /\ \/ last'.arg[3].updateAsMongo = Bool(TRUE) /\ ~HasModifier(last'.arg[2])
           \/ Falsy(last'.arg[3].updateAsMongo) /\ last'.arg[3].override) =>
          \A i \in SelectedPos(docs, last'.arg[1], last'.arg[3]) :
              /\ i <= Len(docs')
              /\ docs'[i] = Put(toObject(last'.arg[2]), K_id, IdAt(docs, i))]_vars

\* C12: in strict mode an update document with both $-prefixed and other
\* top-level keys is rejected with an error, in whatever order its keys
\* are, and no stored document is modified (when the selector matches a
\* stored document).
C12_MixedKeysRejected ==
    [][(/\ UpdateOfStored
        /\ last'.arg[3].updateAsMongo = Bool(TRUE)
        /\ HasModifier(last'.arg[2]) /\ HasField(last'.arg[2])) =>
          (last'.err /\ docs' = docs /\ doc_indexes' = doc_indexes)]_vars

\* C13: when the options do not set updateAsMongo, update does what it
\* does with updateAsMongo = true: an update document without modifiers
\* replaces the matched document and one with mixed keys is rejected.
C13_UnsetIsStrict ==
    [][(/\ UpdateOfStored
        /\ last'.arg[3].updateAsMongo = Undef
        /\ HasField(last'.arg[2])) =>
          LET strict == update(docs, doc_indexes, oid_counter, last'.arg[1], last'.arg[2],
                               [last'.arg[3] EXCEPT !.updateAsMongo = Bool(TRUE)], 0)
          IN  /\ last'.err = strict.err
              /\ docs' = strict.docs
              /\ last'.res = strict.res]_vars

\* C14: in strict mode, update with multi = true and an update document
\* without update operators fails ("You can not update several documents
\* when no update operators are included") and modifies no stored document
\* (when the selector matches a stored document).
C14_MultiReplacementRejected ==
    [][(/\ UpdateOfStored
        /\ last'.arg[3].updateAsMongo = Bool(TRUE)
        /\ last'.arg[3].multi
        /\ ~HasModifier(last'.arg[2])) =>
          (last'.err /\ docs' = docs /\ doc_indexes' = doc_indexes)]_vars

\* the value the update document gives for key (its keys are distinct)
C15_Named(upd, key) == \E j \in 1..Len(upd) : upd[j][1] = key
C15_Value(upd, key) == upd[CHOOSE j \in 1..Len(upd) : upd[j][1] = key][2]

\* C15: in lenient mode without override, an update document without
\* modifiers overwrites in the matched document each top-level field that
\* the update names and the document already has, adds no field, removes
\* no field and never reassigns _id.
C15_LenientAssignsExisting ==
    [][(/\ UpdateOfStored
        /\ ~last'.err
        /\ Falsy(last'.arg[3].updateAsMongo) /\ ~last'.arg[3].override
        /\ ~HasModifier(last'.arg[2])) =>
          LET S == SelectedPos(docs, last'.arg[1], last'.arg[3])
          IN  \A i \in S :
                LET d == docs[i]
                    r == last'.res.updated[Rank(S, i)]
                IN  /\ DOMAIN r[2] = DOMAIN d[2]
                    /\ \A k \in DOMAIN d[2] :
                          r[2][k] = IF k # K_id /\ C15_Named(last'.arg[2], k)
                                    THEN C15_Value(last'.arg[2], k)
                                    ELSE d[2][k]]_vars

\* C16: when the selector of update matches no document: with upsert,
\* exactly one document, the update document normalized as by insert, is
\* appended and the result is updated.count 0, inserted.count 1 and
\* inserted.documents the stored document; without upsert the collection is
\* unchanged and both counts are 0.
C16_UpsertInsertsUpdateDocument ==
    [][(/\ last'.op = "update"
        /\ ~last'.err
        /\ SelectedPos(docs, last'.arg[1], last'.arg[3]) = {}) =>
          IF last'.arg[3].upsert
          THEN LET d == toObject(last'.arg[2])
                   n == Len(docs)
                   stored == docs'[n + 1]
                   digits == C10_GivenDigits(Get(d, K_id))
               IN  /\ Len(docs') = n + 1
                   /\ SubSeq(docs', 1, n) = docs
                   /\ last'.res = [updated |-> <<>>, inserted |-> <<stored>>]
                   /\ DOMAIN stored[2] = (DOMAIN d[2]) \cup {K_id, K_timestamp}
                   /\ \A k \in (DOMAIN d[2]) \ {K_id, K_timestamp} : stored[2][k] = d[2][k]
                   /\ IF digits # <<>>
                      THEN stored[2][K_id] = Str(digits)
                      ELSE Tag(stored[2][K_id]) = "oid"
          ELSE /\ docs' = docs
               /\ doc_indexes' = doc_indexes
               /\ last'.res = [updated |-> <<>>, inserted |-> <<>>]]_vars

\* an upsert that matched nothing stored {_id: "a7", a: 1} as a second
\* document, with the _id "7"
C16_Witness ==
    /\ last.op = "update" /\ ~last.err
    /\ last.arg[3].upsert
    /\ last.arg[2] = U_idDoc
    /\ Len(last.res.inserted) = 1
    /\ Len(docs) = 2
    /\ docs[2] = last.res.inserted[1]
    /\ IdAt(docs, 2) = S7

\* C17: after any sequence of insert, update (all modes, upsert and
\* replacement included) and remove calls, no top-level field name of a
\* stored document begins with '$' or contains '.'.
C17_NoReservedFieldNames ==
    \A i \in 1..Len(docs) :
        IsObj(docs[i]) =>
            \A k \in DOMAIN docs[i][2] : ~IsModifierKey(k) /\ ~HasDot(k)

\* the step is a call on the collection (the stores stay registered)
CollectionCall == Len(_stores') = Len(_stores)

\* what the handlers of store i were called with during the step
Received(i) == SubSeq(_stores'[i].log, Len(_stores[i].log) + 1, Len(_stores'[i].log))

\* the events of a call on the collection change its documents
Mutations == {"insert", "update", "remove"}

\* C18: for insert, update and remove, when a handler of a store receives
\* the event of the call, docs and doc_indexes of the collection already
\* reflect the completed mutation: they are what the call leaves, the
\* inserted document is stored, the updated documents are written and the
\* removed documents are gone.
C18_EventAfterMutation ==
    [][CollectionCall =>
          \A i \in 1..Len(_stores) :
              \A j \in 1..Len(Received(i)) :
                  LET e == Received(i)[j]
                  IN  e.name \in Mutations =>
                        /\ e.docs = docs'
                        /\ e.ix = doc_indexes'
                        /\ e.name = "insert" =>
                              /\ e.docs # <<>>
                              /\ e.docs[Len(e.docs)] = e.args[1]
                        /\ e.name = "update" =>
                              \A k \in 1..Len(e.args) :
                                  \E p \in 1..Len(e.docs) : e.docs[p] = e.args[k]
                        /\ e.name = "remove" =>
                              \A k \in 1..Len(e.args) :
                                  \A p \in 1..Len(e.docs) : e.docs[p] # e.args[k]]_vars

\* the names of the events a call emits, in order, from what it was called
\* with and what it returned
C19_Names(l) ==
    CASE l.op = "insert" -> <<"insert">>
      [] l.op = "remove" -> <<"find", "remove">>
      [] l.op = "update" ->
            <<IF l.arg[3].multi THEN "find" ELSE "findOne">>
            \o (IF Len(l.res.inserted) > 0 THEN <<"insert">>
                ELSE IF Len(l.res.updated) > 0 THEN <<"update">>
                ELSE <<>>)

\* C19: each store receives the events of the calls in the order of the
\* calls: the events of a call are delivered, in order, before it returns,
\* after every event of the calls before it.
C19_EventsInCallOrder ==
    [][CollectionCall =>
          \A i \in 1..Len(_stores) :
              /\ Len(_stores'[i].log) >= Len(_stores[i].log)
              /\ SubSeq(_stores'[i].log, 1, Len(_stores[i].log)) = _stores[i].log
              /\ ~last'.err =>
                    [j \in 1..Len(Received(i)) |-> Received(i)[j].name]
                      = SelectSeq(C19_Names(last'),
                                  LAMBDA n : n \in _stores[i].on \/ _stores[i].all)]_vars

\* two stores have each received the events of two calls, the second an
\* update
C19_Witness ==
    /\ Len(_stores) = 2
    /\ last.op = "update" /\ ~last.err
    /\ \A i \in 1..2 :
          /\ Len(_stores[i].log) >= 2
          /\ _stores[i].log[1].name = "insert"
          /\ _stores[i].log[Len(_stores[i].log)].name = "update"

\* C20: an insert, update or remove call that raises an error emits no
\* insert, update or remove event to any store.
C20_NoEventOnError ==
    [][(CollectionCall /\ last'.err) =>
          \A i \in 1..Len(_stores) :
              \A j \in 1..Len(Received(i)) : Received(i)[j].name \notin Mutations]_vars

\* an update in front of a store threw after another document was stored
C20_Witness ==
    /\ last.op = "update" /\ last.err
    /\ Len(docs) >= 2
    /\ \E i \in 1..Len(_stores) :
          /\ _stores[i].log # <<>>
          /\ _stores[i].log[Len(_stores[i].log)].name = "find"

\* the names of the events a call emits, in order, whether it returned or
\* threw: a call that throws has emitted the event of its find
C21_Names(l) ==
    IF ~l.err THEN C19_Names(l)
    ELSE IF l.op = "insert" THEN <<>>
    ELSE IF l.op = "update" /\ ~l.arg[3].multi THEN <<"findOne">>
    ELSE <<"find">>

\* the stores registered before store i that have a handler called for name
\* the names of the events the calls on a collection emit
EventNames == {"insert", "update", "remove", "find", "findOne"}

C21_Before(i, name) ==
    {k \in 1..(i - 1) : name \in _stores[k].on \/ _stores[k].all}

\* C21: for every emitted event each registered store is visited once, in
\* registration order: a store with a handler named after the event gets
\* that handler called and not all; a store without it but with all gets
\* all called, with args.name set to the event name; a store with neither
\* is not called.
C21_DispatchPerStore ==
    [][CollectionCall =>
          \A i \in 1..Len(_stores) :
              \A n \in EventNames :
                  LET got == SelectSeq(Received(i), LAMBDA c : c.name = n)
                      emitted == \E j \in 1..Len(C21_Names(last')) : C21_Names(last')[j] = n
                  IN  IF ~emitted THEN got = <<>>
                      ELSE IF n \in _stores[i].on
                      THEN /\ Len(got) = 1
                           /\ got[1].handler = n
                           /\ got[1].nth = Cardinality(C21_Before(i, n))
                      ELSE IF _stores[i].all
                      THEN /\ Len(got) = 1
                           /\ got[1].handler = "all"
                           /\ got[1].argsName = n
                           /\ got[1].nth = Cardinality(C21_Before(i, n))
                      ELSE got = <<>>]_vars

\* the second of two stores, which has insert and all, had insert called
\* for an insert and then all for the find of a remove
C21_Witness ==
    /\ Len(_stores) = 2
    /\ last.op = "remove"
    /\ _stores[2].on = {"insert"} /\ _stores[2].all
    /\ _stores[1].log # <<>>
    /\ Len(_stores[2].log) >= 2
    /\ _stores[2].log[1].handler = "insert"
    /\ _stores[2].log[2].handler = "all"
    /\ _stores[2].log[2].argsName = "find"

(* ------------------------- modifiers specification --------------------- *)
MaxModDocs == 1

K_l == <<"l">>
K_n == <<"n">>
K_b == <<"b">>
K_s == <<"s">>
P_nc == <<"n", ".", "c">>
P_nb == <<"n", ".", "b">>
P_mc == <<"m", ".", "c">>
P_ab == <<"a", ".", "b">>
P_nzq == <<"n", ".", "z", ".", "q">>
P_qr == <<"q", ".", "r">>
P_zq == <<"z", ".", "q">>
P_nz == <<"n", ".", "z">>
P_l0 == <<"l", ".", "0">>
P_l5 == <<"l", ".", "5">>

\* an update document with one modifier on one key path: {key: {keypath: arg}}
U_mod(key, keypath, arg) == << <<key, << <<keypath, arg>> >> >> >>

\* documents handed to insert where the modifiers are exercised
ModDocs ==
    { FromPairs(<< <<K_id, S7>>, <<K_a, Num(1)>>,                       \* {_id: "7", a: 1,
                   <<K_l, Arr(<<Num(1), Num(2), Num(1)>>)>>,            \*  l: [1, 2, 1],
                   <<K_n, FromPairs(<< <<K_b, Num(1)>> >>)>> >>),       \*  n: {b: 1}}
      FromPairs(<< <<K_id, S7>>, <<K_a, Null>>,                         \* {_id: "7", a: null,
                   <<K_l, Arr(<<FromPairs(<< <<K_b, Num(1)>> >>),       \*  l: [{b: 1}, {b: 2}, 1]}
                               FromPairs(<< <<K_b, Num(2)>> >>), Num(1)>>)>> >>) }

\* coll.insert(doc) into a collection of less than MaxModDocs documents
InsertMod == Len(docs) < MaxModDocs /\ InsertOf(ModDocs)

\* update calls with $set and $addToSet
SetCalls ==
    { <<SelId(S7), U_mod(K_set, P_nc, Arr(<<Num(1)>>)), NoOptions>>,    \* {$set: {"n.c": [1]}}
      <<SelId(S7), U_setX, NoOptions>>,
      <<SelId(S7), U_setId, NoOptions>>,
      <<SelAll, U_mod(K_addToSet, K_l, Num(1)), NoOptions>>,            \* {$addToSet: {l: 1}}
      <<SelAll, U_mod(K_addToSet, K_l, Num(0)), NoOptions>>,            \* {$addToSet: {l: 0}}
      <<SelAll, U_mod(K_addToSet, K_s, Num(2)), NoOptions>>,            \* {$addToSet: {s: 2}}
      <<SelAll, U_mod(K_addToSet, K_l,                                  \* {$addToSet: {l: {$each: [1, 0]}}}
                      FromPairs(<< <<K_each, Arr(<<Num(1), Num(0)>>)>> >>)), NoOptions>>,
      <<SelAll, U_mod(K_addToSet, K_y,                                  \* {$addToSet: {y: {$each: [1, 2]}}}
                      FromPairs(<< <<K_each, Arr(<<Num(1), Num(2)>>)>> >>)), NoOptions>> }

\* update calls with $pull
PullCalls ==
    { <<SelAll, U_mod(K_pull, K_l, Num(1)), NoOptions>>,                \* {$pull: {l: 1}}
      <<SelAll, U_mod(K_pull, K_l, Num(0)), NoOptions>>,                \* {$pull: {l: 0}}
      <<SelAll, U_mod(K_pull, K_l, FromPairs(<< <<K_b, Num(1)>> >>)), NoOptions>>,  \* {$pull: {l: {b: 1}}}
      <<SelAll, U_mod(K_pull, K_a, Num(1)), NoOptions>> }               \* {$pull: {a: 1}}

UpdateSets == Update(SetCalls)
UpdatePulls == Update(PullCalls)

NextMods == InsertMod \/ UpdateSets \/ UpdatePulls

SpecMods == Init /\ [][NextMods]_vars

RECURSIVE valueAt(_, _, _)
\* the value a document holds at a key path: keyparts[i..] under node
valueAt(node, keyparts, i) ==
    IF i > Len(keyparts) THEN node
    ELSE IF IsObj(node) THEN valueAt(Get(node, keyparts[i]), keyparts, i + 1)
    ELSE IF IsArr(node) /\ IsNumeric(keyparts[i])
         THEN valueAt(CGet(node, ToNumber(keyparts[i])), keyparts, i + 1)
    ELSE Undef

\* the step is an update of one modifier key on one key path
ModCall(keys) ==
    /\ last'.op = "update"
    /\ Len(last'.arg[2]) = 1 /\ last'.arg[2][1][1] \in keys
    /\ Len(last'.arg[2][1][2]) = 1

\* the step is such an update, and it returns
ModStep(keys) == ModCall(keys) /\ ~last'.err

\* the modifier key, key path and argument of such a step
ModKey == last'.arg[2][1][1]
ModPath == last'.arg[2][1][2][1][1]
ModArg == last'.arg[2][1][2][1][2]

\* the position in docs of the first document the selector of the step
\* matches (0: none), and that document
ModPos ==
    IF \E i \in 1..Len(docs) : Matches(last'.arg[1], docs[i])
    THEN CHOOSE i \in 1..Len(docs) :
            /\ Matches(last'.arg[1], docs[i])
            /\ \A j \in 1..(i - 1) : ~Matches(last'.arg[1], docs[j])
    ELSE 0
ModDoc == docs[ModPos]

\* the document the update returns as updated
ModOut == last'.res.updated[1]

\* doc_indexes gives the position of the document the selector matched
ModIndexed == IndexOf(doc_indexes, PropKey(Get(ModDoc, K_id))) = ModPos - 1

\* the value at the key path of the step, in the document the selector
\* matched and in the document the update returns
ModPre == valueAt(ModDoc, Split(ModPath), 1)
ModPost == valueAt(ModOut, Split(ModPath), 1)

\* C22: after update({_id: id}, {$set: {k: v}}) on a collection holding a
\* document with that _id, the stored document (at the position of the
\* matched one) has at k a value that equals v
C22_SetStoresValue ==
    [][(/\ ModStep({K_set})
        /\ last'.arg[1][1] = "eq" /\ last'.arg[1][2] = K_id
        /\ ModPos > 0)
       => valueAt(docs'[ModPos], Split(ModPath), 1) = ModArg]_vars

\* the elements of the array post that the array (or absent field) pre did
\* not hold
Added(pre, post) ==
    IF IsArr(pre) THEN SubSeq(post[2], Len(pre[2]) + 1, Len(post[2])) ELSE post[2]

\* C23: $set and $addToSet (of a value or of {$each: [...]}) applied a second
\* time leave the document as the first application made it, the field
\* absent or an array at first; $addToSet adds no element that equals one
\* already present and never stores the $each wrapper as an element
C23_SetAndAddToSetIdempotent ==
    [][(ModStep({K_set, K_addToSet}) /\ ModPos > 0)
       => /\ _applyModifier(ModOut, ModKey, last'.arg[2][1][2]) = Ok(ModOut)
          /\ ModKey = K_addToSet =>
                /\ IsArr(ModPost)
                /\ \A j \in 1..Len(Added(ModPre, ModPost)) :
                      /\ ~isEach(Added(ModPre, ModPost)[j])
                      /\ IsArr(ModPre) =>
                            \A i \in 1..Len(ModPre[2]) :
                                ModPre[2][i] # Added(ModPre, ModPost)[j]
                      /\ \A i \in 1..(j - 1) :
                            Added(ModPre, ModPost)[i] # Added(ModPre, ModPost)[j]]_vars

\* the element e is one that {$pull: {field: arg}} is to take out
Pulled(e, arg) == IF IsObj(arg) THEN Matches(compilePull(arg), e) ELSE e = arg

NoCreateCalls ==
    { <<SelAll, U_mod(K_unset, P_nzq, Str(<<>>)), NoOptions>>,          \* {$unset: {"n.z.q": ""}}
      <<SelAll, U_mod(K_unset, K_y, Str(<<>>)), NoOptions>>,            \* {$unset: {y: ""}}
      <<SelAll, U_mod(K_unset, P_l5, Str(<<>>)), NoOptions>>,           \* {$unset: {"l.5": ""}}
      <<SelAll, U_mod(K_unset, P_ab, Str(<<>>)), NoOptions>>,           \* {$unset: {"a.b": ""}}
      <<SelAll, U_mod(K_pop, P_qr, Num(1)), NoOptions>>,                \* {$pop: {"q.r": 1}}
      <<SelAll, U_mod(K_pop, K_y, Num(1)), NoOptions>>,                 \* {$pop: {y: 1}}
      <<SelAll, U_mod(K_pop, K_l, Num(1)), NoOptions>>,                 \* {$pop: {l: 1}}
      <<SelAll, U_mod(K_pull, P_nz, Num(1)), NoOptions>>,               \* {$pull: {"n.z": 1}}
      <<SelAll, U_mod(K_pull, P_qr, Num(1)), NoOptions>>,               \* {$pull: {"q.r": 1}}
      <<SelAll, U_mod(K_pullAll, P_qr, Arr(<<Num(1)>>)), NoOptions>>,   \* {$pullAll: {"q.r": [1]}}
      <<SelAll, U_mod(K_pullAll, K_y, Arr(<<Num(1)>>)), NoOptions>>,    \* {$pullAll: {y: [1]}}
      <<SelAll, U_mod(K_rename, P_zq, Str(K_y)), NoOptions>>,           \* {$rename: {"z.q": "y"}}
      <<SelAll, U_mod(K_rename, K_y, Str(K_x)), NoOptions>> }           \* {$rename: {y: "x"}}

\* update calls with $rename
RenameCalls ==
    { <<SelAll, U_mod(K_rename, K_a, Str(P_mc)), NoOptions>>,           \* {$rename: {a: "m.c"}}
      <<SelAll, U_mod(K_rename, P_nb, Str(K_y)), NoOptions>>,           \* {$rename: {"n.b": "y"}}
      <<SelAll, U_mod(K_rename, K_l, Str(P_nc)), NoOptions>>,           \* {$rename: {l: "n.c"}}
      <<SelAll, U_mod(K_rename, K_a, Str(K_a)), NoOptions>>,            \* {$rename: {a: "a"}}
      <<SelAll, U_mod(K_rename, K_a, Num(5)), NoOptions>>,              \* {$rename: {a: 5}}
      <<SelAll, U_mod(K_rename, P_l0, Str(K_y)), NoOptions>>,           \* {$rename: {"l.0": "y"}}
      <<SelAll, U_mod(K_rename, K_a, Str(P_l0)), NoOptions>> }          \* {$rename: {a: "l.0"}}

UpdateNoCreate == Update(NoCreateCalls)
UpdateRenames == Update(RenameCalls)

NextPaths == InsertMod \/ UpdateNoCreate \/ UpdateRenames

SpecPaths == Init /\ [][NextPaths]_vars

\* C29: $unset, $pop, $rename, $pull and $pullAll on a key path of which a
\* segment is absent from the document raise no error and leave the
\* document as it was: no intermediate object created, no array padded
C29_AbsentPathIsNoOp ==
    [][(/\ ModCall(_noCreateModifiers)
        /\ ModPos > 0
        /\ ModPre = Undef)
       => /\ ~last'.err
          /\ ModOut = ModDoc
          /\ docs' = docs]_vars

\* some segment before the last of the key path is an array of the document
ThroughArray(doc, keyparts) ==
    \E j \in 1..(Len(keyparts) - 1) : IsArr(valueAt(doc, SubSeq(keyparts, 1, j), 1))

\* the $rename of the step is one that is to fail
RenameInvalid ==
    \/ ~IsStr(ModArg)
    \/ ModArg[2] = ModPath
    \/ ThroughArray(ModDoc, Split(ModPath))
    \/ ThroughArray(ModDoc, Split(ModArg[2]))

MaxSum == 11

U_inc5 == U_mod(K_inc, K_a, Num(5))                                     \* {$inc: {a: 5}}

\* documents handed to insert where $inc is exercised
IncDocs ==
    { FromPairs(<< <<K_id, S7>>, <<K_a, Num(1)>> >>),                   \* {_id: "7", a: 1}
      FromPairs(<< <<K_id, S8>>, <<K_a, Ss>> >>) }                      \* {_id: "8", a: "s"}

InsertInc == Len(docs) < MaxModDocs /\ InsertOf(IncDocs)

\* update calls with $inc
IncCalls ==
    { <<SelEq(K_a, Num(1)), U_inc5, NoOptions>>,
      <<SelId(S7), U_inc5, NoOptions>>,
      <<SelAll, U_inc5, NoOptions>>,
      <<SelAll, U_incA, NoOptions>>,
      <<SelAll, U_mod(K_inc, K_y, Num(5)), NoOptions>>,                 \* {$inc: {y: 5}}
      <<SelAll, U_mod(K_inc, K_a, Ss), NoOptions>> }                    \* {$inc: {a: "s"}}

\* the update has no $inc, or no stored document holds a number of cap or more
IncWithin(upd, cap) ==
    (\E j \in 1..Len(upd) : upd[j][1] = K_inc) =>
        \A i \in 1..Len(docs) :
            IsObj(docs[i]) =>
                \A f \in DOMAIN docs[i][2] : IsNum(docs[i][2][f]) => docs[i][2][f][2] < cap

\* coll.update(selection, {$inc: ...}) while the numbers are below MaxSum
UpdateIncs ==
    \E call \in IncCalls, t \in Times :
        /\ IncWithin(call[2], MaxSum)
        /\ Commit("update", call,
                  update(docs, doc_indexes, oid_counter, call[1], call[2], call[3], t))

NextInc == InsertInc \/ UpdateIncs

SpecInc == Init /\ [][NextInc]_vars

\* C25 as stated: update({a: 1}, {$inc: {a: 5}}) having made a document's a
\* equal 6, the same call again makes it 11
C25_SameCallAgainGives11 ==
    [][(/\ last.op = "update" /\ ~last.err /\ last'.op = "update"
        /\ last.arg = <<SelEq(K_a, Num(1)), U_inc5, NoOptions>>
        /\ last'.arg = last.arg
        /\ Len(last.res.updated) = 1
        /\ Get(last.res.updated[1], K_a) = Num(6))
       => \E i \in 1..Len(docs') :
             /\ IdAt(docs', i) = Get(last.res.updated[1], K_id)
             /\ Get(docs'[i], K_a) = Num(11)]_vars

\* C25: $inc adds its numeric argument to the field, creates the field with
\* the argument when it is absent, and fails, the documents unchanged, on a
\* field that holds no number or with an argument that is no number; the
\* sum is what the call returns and, where doc_indexes is exact, stores; a
\* call whose selector matches no document changes nothing, so
\* update({a: 1}, {$inc: {a: 5}}) makes a 6 and the same call again leaves
\* it 6, while {$inc: {a: 5}} on that document by its _id makes it 11
C25_IncAdds ==
    [][ModCall({K_inc})
       => IF ModPos = 0
          THEN ~last'.err /\ docs' = docs /\ last'.res.updated = <<>>
          ELSE IF ~IsNum(ModArg) \/ (ModPre # Undef /\ ~IsNum(ModPre))
          THEN last'.err /\ docs' = docs
          ELSE /\ ~last'.err
               /\ ModPost = IF ModPre = Undef THEN ModArg
                            ELSE Num(ModPre[2] + ModArg[2])
               /\ ModIndexed => docs'[ModPos] = ModOut]_vars

\* a is 11: 1, then 6 by update({a: 1}, {$inc: {a: 5}}), which then matches
\* nothing, then 11 by update({_id: "7"}, {$inc: {a: 5}})
C25_Witness ==
    /\ last.op = "update" /\ ~last.err
    /\ last.arg = <<SelId(S7), U_inc5, NoOptions>>
    /\ Len(docs) = 1
    /\ Get(docs[1], K_a) = Num(11)
    /\ last.res.updated = <<docs[1]>>

(* ------------------------ remove options specification ----------------- *)
K_justOne == <<"j", "u", "s", "t", "O", "n", "e">>

\* {justOne: true}
JustOne == FromPairs(<< <<K_justOne, Bool(TRUE)>> >>)

\* documents handed to insert where remove is called with a second argument
JustDocs ==
    { FromPairs(<< <<K_id, S7>>, <<K_a, Num(1)>> >>),                   \* {_id: "7", a: 1}
      FromPairs(<< <<K_id, S8>>, <<K_a, Num(1)>> >>),                   \* {_id: "8", a: 1}
      FromPairs(<< <<K_id, S9>>, <<K_a, Ss>> >>) }                      \* {_id: "9", a: "s"}

InsertJust == InsertOf(JustDocs)

\* the second argument of remove: none, a callback, the options
RemoveSeconds == {Undef, Fn, JustOne}

\* selectors handed to remove with a second argument
RemoveSelections == {SelAll, SelEq(K_a, Num(1))}

\* coll.remove(selection, second)
RemoveWith ==
    \E selection \in RemoveSelections, second \in RemoveSeconds :
        Commit("remove", <<selection, second>>,
               removeWith(docs, doc_indexes, oid_counter, selection, second))

NextJust == InsertJust \/ RemoveWith

SpecJust == Init /\ [][NextJust]_vars

\* ds without its i-th element
Without(ds, i) == SubSeq(ds, 1, i - 1) \o SubSeq(ds, i + 1, Len(ds))

\* C26: remove(selection, {justOne: true}) with a matching document stored
\* removes the first matching document, returns it, and leaves every other
\* document, matching or not, stored
C26_JustOneRemovesFirst ==
    [][(/\ last'.op = "remove"
        /\ last'.arg[2] = JustOne
        /\ \E i \in 1..Len(docs) : Matches(last'.arg[1], docs[i]))
       => /\ ~last'.err
          /\ \E i \in 1..Len(docs) :
                /\ Matches(last'.arg[1], docs[i])
                /\ \A j \in 1..(i - 1) : ~Matches(last'.arg[1], docs[j])
                /\ last'.res = <<docs[i]>>
                /\ docs' = Without(docs, i)]_vars

(* ------------------------------ databases ------------------------------ *)
MaxHandles == 2
MaxColls == 1
MaxDbLog == 2

\* s.indexOf(sub) !== -1
HasSub(s, sub) ==
    \E i \in 1..(Len(s) - Len(sub) + 1) : SubSeq(s, i, i + Len(sub) - 1) = sub

\* _validateDatabaseName(databaseName) returns (it throws otherwise)
_validateDatabaseName(databaseName) ==
    /\ IsStr(databaseName)
    /\ Len(databaseName[2]) # 0
    /\ \A i \in 1..Len(databaseName[2]) :
          databaseName[2][i] \notin {" ", ".", "$", "/", "\\"}

\* a registry in which no name is found
registeredNever(conns, databaseName) == FALSE

\* the names every object inherits a member under from Object.prototype
\* (constructor stands for them; their values are functions)
Inherited == { <<"c", "o", "n", "s", "t", "r", "u", "c", "t", "o", "r">> }

\* obj[key] is truthy, for an object or array obj whose own keys hold
\* objects
truthy(keys, key) == key \in keys \/ key \in Inherited

\* MongoPortable.connections[databaseName] is set
registered(conns, databaseName) == truthy(conns, PropKey(databaseName))

\* the state the databases are left in by a call, and what it returns or
\* throws
DbResult(err, res, conns, hs, acc) ==
    [err |-> err, res |-> res, connections |-> conns, dbs |-> hs, accessors |-> acc]

\* what a call on a database returns or throws: the error thrown, a database
\* handle (its place in dbs), a collection
Thrown(msg) == <<"err", msg>>
Handle(i) == <<"db", i>>
Coll(c) == <<"coll", c.name, c.fullName, c.docs>>

\* this._emit(name, args) of a call on a database: the event as a handler
\* receives it; docs holds the collections of args.conn by key and ix the
\* registry of names, as they are at that moment
DbEvent(name, conns, colls, args) == Event(name, colls, conns, args)

\* MongoPortable.prototype._emit on the handle h: stores holds the store
\* objects ever added to the handle, _stores the places of those the handle
\* has now
emitOn(h, e) ==
    [h EXCEPT !.stores =
        [k \in 1..Len(@) |->
            IF \E j \in 1..Len(h._stores) : h._stores[j] = k
            THEN deliver([j \in 1..Len(h._stores) |-> h.stores[h._stores[j]]], e)
                     [CHOOSE j \in 1..Len(h._stores) : h._stores[j] = k]
            ELSE @[k]]]

\* self._collections[key]: the collection, an inherited function, or
\* undefined
lookup(colls, key) ==
    IF key \in DOMAIN colls THEN Coll(colls[key])
    ELSE IF key \in Inherited THEN Fn
    ELSE Undef

\* new MongoPortable(databaseName): the handle has the name, its collections
\* by key and its stores; live records that dropDatabase has not succeeded on
\* the handle
MongoPortable(conns, hs, acc, databaseName) ==
    IF ~_validateDatabaseName(databaseName)
    THEN DbResult(TRUE, Thrown("database name is invalid"), conns, hs, acc)
    ELSE IF registered(conns, databaseName)
    THEN DbResult(TRUE, Thrown("db name already in use"), conns, hs, acc)
    ELSE DbResult(FALSE, Handle(Len(hs) + 1), conns \cup {databaseName[2]},
                  Append(hs, [databaseName |-> databaseName[2],
                              _collections |-> [k \in {} |-> 0],
                              _stores |-> <<>>,
                              stores |-> <<>>,
                              live |-> TRUE]),
                  acc)

\* collectionName.match(/((^\$cmd)|(oplog\.\$main))/) !== null
IsPseudoNamespace(s) ==
    \/ Len(s) >= 4 /\ SubSeq(s, 1, 4) = <<"$", "c", "m", "d">>
    \/ HasSub(s, <<"o", "p", "l", "o", "g", ".", "$", "m", "a", "i", "n">>)

\* Collection.checkCollectionName(collectionName) returns (it throws
\* otherwise)
checkCollectionName(collectionName) ==
    /\ IsStr(collectionName)
    /\ collectionName[2] # <<>>
    /\ ~HasSub(collectionName[2], <<".", ".">>)
    /\ ~(HasSub(collectionName[2], <<"$">>) /\ ~IsPseudoNamespace(collectionName[2]))
    /\ collectionName[2][1] # "."
    /\ collectionName[2][Len(collectionName[2])] # "."

\* new Collection(db, collectionName, ...): its name and fullName, and no
\* documents
NewCollection(h, collectionName) ==
    [name |-> collectionName[2],
     fullName |-> h.databaseName \o <<".">> \o collectionName[2],
     docs |-> <<>>,
     doc_indexes |-> [k \in {} |-> 0]]

\* db.collection(collectionName) on the i-th handle; the createCollection
\* event goes to the stores of the handle
collection(conns, hs, acc, i, collectionName) ==
    IF truthy(DOMAIN hs[i]._collections, PropKey(collectionName))
    THEN DbResult(FALSE, lookup(hs[i]._collections, PropKey(collectionName)), conns,
                  [hs EXCEPT ![i] =
                       emitOn(@, DbEvent("createCollection", conns, @._collections,
                                         <<lookup(@._collections, PropKey(collectionName))>>))],
                  acc)
    ELSE IF Tag(collectionName) \in {"null", "undef"} \/ ~checkCollectionName(collectionName)
    THEN DbResult(TRUE, Thrown("collection name is invalid"), conns, hs, acc)
    ELSE DbResult(FALSE, Coll(NewCollection(hs[i], collectionName)), conns,
                  [hs EXCEPT ![i] =
                       emitOn([@ EXCEPT !._collections =
                                   IndexPut(@, collectionName[2],
                                            NewCollection(hs[i], collectionName))],
                              DbEvent("createCollection", conns,
                                      IndexPut(@._collections, collectionName[2],
                                               NewCollection(hs[i], collectionName)),
                                      <<Coll(NewCollection(hs[i], collectionName))>>))],
                  IndexPut(acc, collectionName[2], i))

\* the handle after delete self._collections[collectionName]
dropped(h, collectionName) ==
    [h EXCEPT !._collections = IndexDel(@, PropKey(collectionName))]

\* db.dropCollection(collectionName) on the i-th handle
dropCollection(conns, hs, acc, i, collectionName) ==
    IF truthy(DOMAIN hs[i]._collections, PropKey(collectionName))
    THEN DbResult(FALSE, Bool(TRUE), conns,
                  [hs EXCEPT ![i] =
                       dropped(emitOn(@, DbEvent("dropCollection", conns, @._collections,
                                                 <<lookup(@._collections,
                                                          PropKey(collectionName))>>)),
                               collectionName)],
                  acc)
    ELSE DbResult(FALSE, Bool(FALSE), conns, hs, acc)         \* No collection found

\* this.renameProperty(oldName, newName) on the collections of a handle
renameProperty(colls, oldName, newName) ==
    IF oldName \in DOMAIN colls
    THEN IndexDel(IndexPut(colls, newName, colls[oldName]), oldName)
    ELSE colls

\* Collection.prototype.rename(newName) on the collection c of the handle h
\* (newName a string that checkCollectionName accepts)
renameTo(h, c, newName) ==
    IF c.name # newName
    THEN [c EXCEPT !.name = newName,
                   !.fullName = h.databaseName \o <<".">> \o newName]
    ELSE c

\* what Collection.prototype.rename(newName) returns: this when it renamed,
\* else nothing
renameReturns(h, c, newName) ==
    IF c.name # newName THEN Coll(renameTo(h, c, newName)) ELSE Undef

\* db.renameCollection(fromCollection, toCollection) on the i-th handle
renameCollection(conns, hs, acc, i, fromCollection, toCollection) ==
    IF ~(IsStr(fromCollection) /\ IsStr(toCollection) /\ fromCollection # toCollection)
    THEN DbResult(FALSE, Bool(FALSE), conns, hs, acc)         \* The params are invalid
    ELSE IF ~checkCollectionName(toCollection)
    THEN DbResult(TRUE, Thrown("collection name is invalid"), conns, hs, acc)
    ELSE IF ~truthy(DOMAIN hs[i]._collections, fromCollection[2])
    THEN DbResult(FALSE, Bool(FALSE), conns, hs, acc)         \* No collection found
    ELSE IF fromCollection[2] \notin DOMAIN hs[i]._collections
    THEN DbResult(TRUE, Thrown("rename is not a function"), conns,
                  [hs EXCEPT ![i] =
                       emitOn(@, DbEvent("renameCollection", conns, @._collections,
                                         <<fromCollection, toCollection>>))],
                  acc)
    ELSE DbResult(FALSE,
                  renameReturns(hs[i], hs[i]._collections[fromCollection[2]], toCollection[2]),
                  conns,
                  [hs EXCEPT ![i] =
                       [emitOn(@, DbEvent("renameCollection", conns, @._collections,
                                          <<fromCollection, toCollection>>))
                          EXCEPT !._collections =
                              renameProperty([@ EXCEPT ![fromCollection[2]] =
                                                  renameTo(hs[i], @, toCollection[2])],
                                             fromCollection[2], toCollection[2])]],
                  acc)

\* db.dropDatabase() on the i-th handle
dropDatabase(conns, hs, acc, i) ==
    IF registered(conns, Str(hs[i].databaseName))
    THEN DbResult(FALSE, Bool(TRUE), conns \ {hs[i].databaseName},
                  [hs EXCEPT ![i] =
                       [emitOn(@, DbEvent("dropDatabase", conns, @._collections, <<>>))
                          EXCEPT !._collections = [k \in {} |-> 0],
                                 !._stores = <<>>,
                                 !.live = FALSE]],
                  acc)
    ELSE DbResult(FALSE, Bool(FALSE), conns, hs, acc)         \* That database no longer exists

\* names handed to the constructor
DbNames ==
    { Str(<<"d">>), Str(<<"e">>), Str(<<>>), Str(<<"d", ".", "e">>), Num(5) }

\* names handed to collection and renameCollection
CollNames ==
    { Str(<<"c">>), Str(<<>>), Str(<<"a", ".", ".", "b">>),
      Str(<<".", "a">>), Str(<<"a", ".">>), Str(<<"a", "$">>),
      Str(<<"$", "c", "m", "d">>), Str(<<"$", "c", "m", "d", "x">>),
      Str(<<"o", "p", "l", "o", "g", ".", "$", "m", "a", "i", "n">>),
      Num(5), Undef }

\* names handed to renameCollection
RenameFroms == { Str(<<"c">>), Num(5) }
RenameTos ==
    { Str(<<"c">>), Str(<<"$", "c", "m", "d">>), Str(<<>>), Str(<<"a", "$">>),
      Str(<<"$", "c", "m", "d", "x">>), Num(5) }

\* the call returns or throws: r is the state it leaves and its result,
\* maxColls the collections a handle has at most
DbStep(op, arg, r, maxColls) ==
    /\ Len(r.dbs) <= MaxHandles
    /\ \A i \in 1..Len(r.dbs) :
          /\ Cardinality(DOMAIN r.dbs[i]._collections) <= maxColls
          /\ \A k \in 1..Len(r.dbs[i].stores) : Len(r.dbs[i].stores[k].log) <= MaxDbLog
    /\ connections' = r.connections
    /\ dbs' = r.dbs
    /\ accessors' = r.accessors
    /\ last' = [op |-> op, arg |-> arg, err |-> r.err, res |-> r.res]
    /\ UNCHANGED collvars

DbCommit(op, arg, r) == DbStep(op, arg, r, MaxColls)

\* new MongoPortable(databaseName)
NewDatabase ==
    \E databaseName \in DbNames :
        DbCommit("MongoPortable", databaseName,
                 MongoPortable(connections, dbs, accessors, databaseName))

\* db.collection(collectionName)
CreateCollection ==
    \E i \in 1..Len(dbs), collectionName \in CollNames :
        DbCommit("collection", <<i, collectionName>>,
                 collection(connections, dbs, accessors, i, collectionName))

\* db.renameCollection(fromCollection, toCollection)
RenameCollection ==
    \E i \in 1..Len(dbs), fromCollection \in RenameFroms, toCollection \in RenameTos :
        DbCommit("renameCollection", <<i, fromCollection, toCollection>>,
                 renameCollection(connections, dbs, accessors, i, fromCollection, toCollection))

\* db.dropDatabase()
DropDatabase ==
    \E i \in 1..Len(dbs) :
        DbCommit("dropDatabase", <<i>>, dropDatabase(connections, dbs, accessors, i))

NextDb == NewDatabase \/ CreateCollection \/ RenameCollection \/ DropDatabase

SpecDb == Init /\ [][NextDb]_vars

\* C27: constructing a database handle with a name that is registered
\* fails with 'db name already in use', and a construction that fails,
\* for that or for the name being invalid, leaves the registry and the
\* handles as they were
C27_NameInUseFails ==
    [][last'.op = "MongoPortable"
       => /\ (IsStr(last'.arg) /\ last'.arg[2] \in connections)
                => last'.err /\ last'.res = Thrown("db name already in use")
          /\ last'.err => connections' = connections /\ dbs' = dbs]_vars

\* the name "d", registered, was refused to a second construction
C27_Witness ==
    /\ last.op = "MongoPortable" /\ last.err
    /\ last.res = Thrown("db name already in use")
    /\ last.arg = Str(<<"d">>)
    /\ <<"d">> \in connections
    /\ Len(dbs) = 1

\* the names the rules on collection names allow: non-empty strings without
\* "..", not starting or ending with ".", and without "$" unless the name is
\* $cmd or oplog.$main
NameAllowed(v) ==
    /\ IsStr(v)
    /\ v[2] # <<>>
    /\ ~HasSub(v[2], <<".", ".">>)
    /\ v[2][1] # "." /\ v[2][Len(v[2])] # "."
    /\ \/ ~HasSub(v[2], <<"$">>)
       \/ v[2] \in { <<"$", "c", "m", "d">>,
                     <<"o", "p", "l", "o", "g", ".", "$", "m", "a", "i", "n">> }

\* the step is db.collection(name) with no collection under that name
C28_Creates ==
    /\ last'.op = "collection"
    /\ PropKey(last'.arg[2]) \notin DOMAIN dbs[last'.arg[1]]._collections

\* the step is db.renameCollection(from, to) of a registered collection to
\* another name
C28_Renames ==
    /\ last'.op = "renameCollection"
    /\ PropKey(last'.arg[2]) \in DOMAIN dbs[last'.arg[1]]._collections
    /\ last'.arg[2] # last'.arg[3]

\* C28: checkCollectionName accepts exactly the allowed names: collection
\* with a name that is not yet registered, and renameCollection of a
\* registered collection to another name, fail exactly when the name is not
\* allowed; a call that fails registers nothing
C28_CollectionNameRules ==
    [][/\ C28_Creates => (last'.err <=> ~NameAllowed(last'.arg[2]))
       /\ C28_Renames => (last'.err <=> ~NameAllowed(last'.arg[3]))
       /\ (last'.op \in {"collection", "renameCollection"} /\ last'.err)
             => (dbs' = dbs /\ accessors' = accessors)]_vars

(* ------------------------ array paths specification -------------------- *)
MaxWeight == 21

P_lx == <<"l", ".", "x">>
P_l3 == <<"l", ".", "3">>
P_l4 == <<"l", ".", "4">>
P_l5b == <<"l", ".", "5", ".", "b">>

\* update calls with the modifiers that create, on key paths through the
\* array l
ArrayCalls ==
    { <<SelAll, U_mod(K_set, P_l5, Num(1)), NoOptions>>,                \* {$set: {"l.5": 1}}
      <<SelAll, U_mod(K_set, P_lx, Num(1)), NoOptions>>,                \* {$set: {"l.x": 1}}
      <<SelAll, U_mod(K_set, P_l5b, Num(1)), NoOptions>>,               \* {$set: {"l.5.b": 1}}
      <<SelAll, U_mod(K_inc, P_l4, Num(1)), NoOptions>>,                \* {$inc: {"l.4": 1}}
      <<SelAll, U_mod(K_inc, P_lx, Num(1)), NoOptions>>,                \* {$inc: {"l.x": 1}}
      <<SelAll, U_mod(K_push, P_l3, Num(1)), NoOptions>>,               \* {$push: {"l.3": 1}}
      <<SelAll, U_mod(K_push, P_lx, Num(1)), NoOptions>>,               \* {$push: {"l.x": 1}}
      <<SelAll, U_mod(K_pushAll, P_l5, Arr(<<Num(1)>>)), NoOptions>>,   \* {$pushAll: {"l.5": [1]}}
      <<SelAll, U_mod(K_pushAll, P_lx, Arr(<<Num(1)>>)), NoOptions>>,   \* {$pushAll: {"l.x": [1]}}
      <<SelAll, U_mod(K_addToSet, P_l4, Num(1)), NoOptions>>,           \* {$addToSet: {"l.4": 1}}
      <<SelAll, U_mod(K_addToSet, P_lx, Num(1)), NoOptions>> }          \* {$addToSet: {"l.x": 1}}

RECURSIVE SumOver(_, _)
\* the sum of f over the elements of a finite set
SumOver(f, S) ==
    IF S = {} THEN 0
    ELSE LET x == CHOOSE y \in S : TRUE IN f[x] + SumOver(f, S \ {x})

RECURSIVE Weight(_)
\* the size of a value: its number for a number, the sizes of its elements
\* or fields for an array or object, and one more
Weight(v) ==
    CASE IsNum(v) -> 1 + v[2]
      [] IsArr(v) -> 1 + SumOver([i \in 1..Len(v[2]) |-> Weight(v[2][i])], 1..Len(v[2]))
      [] IsObj(v) -> 1 + SumOver([f \in DOMAIN v[2] |-> Weight(v[2][f])], DOMAIN v[2])
      [] OTHER -> 1

\* coll.update(selection, update) while the stored documents are small
UpdateArrays ==
    /\ \A i \in 1..Len(docs) : Weight(docs[i]) < MaxWeight
    /\ Update(ArrayCalls)

NextArr == InsertMod \/ UpdateArrays

SpecArr == Init /\ [][NextArr]_vars

\* the modifiers that create what their key path misses
CreatingModifiers == {K_set, K_inc, K_push, K_pushAll, K_addToSet}

\* the array of the matched document that the key path of the step goes
\* through at its first segment, the segment after it, and that array in the
\* document the update returns
ArrPre == Get(ModDoc, Split(ModPath)[1])
ArrSeg == Split(ModPath)[2]
ArrPost == Get(ModOut, Split(ModPath)[1])

\* C31: a creating modifier ($set, $inc, $push, $pushAll, $addToSet) on a key
\* path through an array fails, the stored documents unchanged, when the
\* segment in the array is not numeric; with a numeric segment k at or past
\* the length of the array, the array has length k + 1 afterwards, null at
\* the positions from the old length to k - 1, and its old elements
C31_ArrayPathPads ==
    [][(/\ ModCall(CreatingModifiers)
        /\ ModPos > 0
        /\ Len(Split(ModPath)) >= 2
        /\ IsArr(ArrPre))
       => IF ~IsNumeric(ArrSeg)
          THEN last'.err /\ docs' = docs
          ELSE ToNumber(ArrSeg) >= Len(ArrPre[2])
               => /\ ~last'.err
                  /\ IsArr(ArrPost)
                  /\ Len(ArrPost[2]) = ToNumber(ArrSeg) + 1
                  /\ \A i \in 1..Len(ArrPre[2]) : ArrPost[2][i] = ArrPre[2][i]
                  /\ \A i \in (Len(ArrPre[2]) + 1)..ToNumber(ArrSeg) : ArrPost[2][i] = Null
                  /\ ModIndexed => docs'[ModPos] = ModOut]_vars

\* {$set: {"l.5": 1}} made [1, 2, 1, null, null, 1] of [1, 2, 1], stored
C31_Witness ==
    /\ last.op = "update" /\ ~last.err
    /\ last.arg[2] = U_mod(K_set, P_l5, Num(1))
    /\ Len(docs) = 1
    /\ Get(docs[1], K_l) = Arr(<<Num(1), Num(2), Num(1), Null, Null, Num(1)>>)

\* C32: within an update or remove call, every handler of a store is called
\* with the collection either as it was before the call wrote anything or
\* as the call leaves it: none sees docs and doc_indexes with only a part of
\* the writes of the call
C32_HandlersSeeNoPartialWrite ==
    [][(CollectionCall /\ last'.op \in {"update", "remove"}) =>
          \A i \in 1..Len(_stores) :
              \A j \in 1..Len(Received(i)) :
                  \/ /\ Received(i)[j].docs = docs
                     /\ Received(i)[j].ix = doc_indexes
                  \/ /\ Received(i)[j].docs = docs'
                     /\ Received(i)[j].ix = doc_indexes']_vars

\* an update with multi wrote two documents in front of a store with a
\* handler for update: the handler saw the collection with both written
C32_Witness ==
    /\ last.op = "update" /\ ~last.err
    /\ Len(last.res.updated) >= 2
    /\ \E i \in 1..Len(_stores) :
          /\ Len(_stores[i].log) >= 2
          /\ _stores[i].log[Len(_stores[i].log) - 1].docs # docs
          /\ _stores[i].log[Len(_stores[i].log)].name = "update"
          /\ _stores[i].log[Len(_stores[i].log)].docs = docs
          /\ \A k \in 1..2 : \E p \in 1..Len(docs) : docs[p] = last.res.updated[k]

(* --------------------- database events specification ------------------- *)
MaxDbStores == 1

S_c == Str(<<"c">>)
S_b == Str(<<"b">>)
S_d == Str(<<"d">>)
S_e == Str(<<"e">>)

\* the events of the calls on a database that change it
DbMutations == {"dropCollection", "renameCollection", "dropDatabase"}

\* stores handed to addStore on a database: one with a handler for each
\* event, one with the handler all
DbStoreKinds ==
    { Store(DbMutations \cup {"createCollection"}, FALSE),
      Store({}, TRUE) }

\* db.addStore(store) on the i-th handle
addStore(hs, i, store) ==
    [hs EXCEPT ![i].stores = Append(@, store),
               ![i]._stores = Append(@, Len(hs[i].stores) + 1)]

\* new MongoPortable(databaseName), the name among names
NewDatabaseOf(names, maxColls) ==
    \E databaseName \in names :
        DbStep("MongoPortable", databaseName,
               MongoPortable(connections, dbs, accessors, databaseName), maxColls)

\* db.addStore(store), called on a handle before any other call on it
DbAddStore ==
    \E i \in 1..Len(dbs), store \in DbStoreKinds :
        /\ Len(dbs[i].stores) < MaxDbStores
        /\ last.op = "MongoPortable" /\ last.res = Handle(i)
        /\ DbStep("addStore", <<i, Bool(store.all)>>,
                  DbResult(FALSE, Handle(i), connections, addStore(dbs, i, store), accessors),
                  MaxColls)

\* db.collection(collectionName), the name among names
CreateCollectionOf(names, maxColls) ==
    \E i \in 1..Len(dbs), collectionName \in names :
        DbStep("collection", <<i, collectionName>>,
               collection(connections, dbs, accessors, i, collectionName), maxColls)

\* db.dropCollection(collectionName), the name among names
DropCollectionOf(names, maxColls) ==
    \E i \in 1..Len(dbs), collectionName \in names :
        DbStep("dropCollection", <<i, collectionName>>,
               dropCollection(connections, dbs, accessors, i, collectionName), maxColls)

\* db.renameCollection(fromCollection, toCollection), the names among names
RenameCollectionOf(names, maxColls) ==
    \E i \in 1..Len(dbs), fromCollection \in names, toCollection \in names :
        DbStep("renameCollection", <<i, fromCollection, toCollection>>,
               renameCollection(connections, dbs, accessors, i, fromCollection, toCollection),
               maxColls)

\* names handed to the constructor: one that is valid and one that is not
OneDbName == { S_d, Str(<<>>) }

\* names handed to collection, dropCollection and renameCollection
OneCollName == { S_c }
TwoCollNames == { S_c, S_b }

NextDbObs ==
    \/ NewDatabaseOf(OneDbName, MaxColls)
    \/ DbAddStore
    \/ CreateCollectionOf(OneCollName, MaxColls)
    \/ DropCollectionOf(TwoCollNames, MaxColls)
    \/ RenameCollectionOf(TwoCollNames, MaxColls)
    \/ DropDatabase

SpecDbObs == Init /\ [][NextDbObs]_vars

\* what the handlers of store k of handle i were called with during the step
DbReceived(i, k) ==
    SubSeq(dbs'[i].stores[k].log, Len(dbs[i].stores[k].log) + 1, Len(dbs'[i].stores[k].log))

\* C33: for dropCollection, renameCollection and dropDatabase, when a
\* handler of a store receives the event, the state of the database already
\* reflects the mutation: the collections of the handle and the registry of
\* names the handler finds are those the call leaves.
C33_DbEventAfterMutation ==
    [][last'.op \in DbMutations =>
          \A i \in 1..Len(dbs) :
              \A k \in 1..Len(dbs[i].stores) :
                  \A j \in 1..Len(DbReceived(i, k)) :
                      /\ DbReceived(i, k)[j].docs = dbs'[i]._collections
                      /\ DbReceived(i, k)[j].ix = connections']_vars

(* ------------------------ registry specification ----------------------- *)
MaxRegColls == 2
MaxCollDocs == 1

S_constructor == Str(<<"c", "o", "n", "s", "t", "r", "u", "c", "t", "o", "r">>)

\* db.collections({namesOnly: true}) on the handle h: the keys of
\* _collections (as a set: their order is not modelled)
collections(h) == DOMAIN h._collections

\* Collection.prototype.rename(newName), called on the collection the i-th
\* handle has under key
Collection_rename(conns, hs, acc, i, key, newName) ==
    IF ~(IsStr(newName) /\ hs[i]._collections[key].name # newName[2])
    THEN DbResult(FALSE, Undef, conns, hs, acc)
    ELSE IF ~checkCollectionName(newName)
    THEN DbResult(TRUE, Thrown("collection name is invalid"), conns, hs, acc)
    ELSE DbResult(FALSE, Coll(renameTo(hs[i], hs[i]._collections[key], newName[2])), conns,
                  [hs EXCEPT ![i]._collections[key] = renameTo(hs[i], @, newName[2])],
                  acc)

\* the insert r into the collection the i-th handle has under key has
\* returned or thrown; its event goes to the stores of the handle
insertedInto(conns, hs, acc, i, key, r) ==
    DbResult(r.err, <<"docs", r.res>>, conns,
             [hs EXCEPT ![i] =
                  [(IF r.ev = <<>> THEN @ ELSE emitOn(@, r.ev[1]))
                      EXCEPT !._collections[key].docs = r.docs,
                             !._collections[key].doc_indexes = r.ix]],
             acc)

\* the document handed to insert on the collections of a database
RegDoc == FromPairs(<< <<K_id, Num(7)>>, <<K_a, Num(1)>> >>)

\* db.collection(key).insert(doc), the collection obtained before
CollectionInsert(maxColls) ==
    \E i \in 1..Len(dbs) :
        \E key \in DOMAIN dbs[i]._collections :
            /\ Len(dbs[i]._collections[key].docs) < MaxCollDocs
            /\ DbStep("insert", <<i, Str(key)>>,
                      insertedInto(connections, dbs, accessors, i, key,
                                   insert(dbs[i]._collections[key].docs,
                                          dbs[i]._collections[key].doc_indexes,
                                          oid_counter, RegDoc, 0)),
                      maxColls)

\* db.collection(key).rename(newName), the collection obtained before
CollectionRename(names, maxColls) ==
    \E i \in 1..Len(dbs), newName \in names :
        \E key \in DOMAIN dbs[i]._collections :
            DbStep("rename", <<i, Str(key), newName>>,
                   Collection_rename(connections, dbs, accessors, i, key, newName), maxColls)

\* names handed to collection and dropCollection: two ordinary ones and
\* one that every object inherits a member under
RegNames == { S_c, S_b, S_constructor }

NextReg ==
    \/ NewDatabaseOf(OneDbName, MaxRegColls)
    \/ CreateCollectionOf(RegNames, MaxRegColls)
    \/ DropCollectionOf(RegNames, MaxRegColls)
    \/ RenameCollectionOf(TwoCollNames, MaxRegColls)
    \/ CollectionInsert(MaxRegColls)
    \/ CollectionRename(TwoCollNames, MaxRegColls)

SpecReg == Init /\ [][NextReg]_vars

\* the step is a call with a name on a handle that has a collection
\* registered under that name
C34_Existed == PropKey(last'.arg[2]) \in DOMAIN dbs[last'.arg[1]]._collections

\* a name stays registered with the documents of its collection, unless the
\* step drops or renames that name (an insert into it adds to them)
C34_Stable ==
    \A i \in 1..Len(dbs) :
        \A n \in DOMAIN dbs[i]._collections :
            \/ /\ last'.op \in {"dropCollection", "renameCollection"}
               /\ last'.arg[1] = i
               /\ PropKey(last'.arg[2]) = n
            \/ /\ n \in DOMAIN dbs'[i]._collections
               /\ \/ last'.op = "insert" /\ last'.arg = <<i, Str(n)>>
                  \/ dbs'[i]._collections[n].docs = dbs[i]._collections[n].docs

\* collection(name) of a registered name returns that collection and
\* registers nothing
C34_Returns ==
    (last'.op = "collection" /\ C34_Existed) =>
        /\ last'.res = Coll(dbs[last'.arg[1]]._collections[PropKey(last'.arg[2])])
        /\ dbs' = dbs

\* collection(name) of a name that is not registered, when it returns,
\* yields a collection without documents, registered under the name
C34_New ==
    (last'.op = "collection" /\ ~C34_Existed /\ ~last'.err) =>
        /\ last'.res[1] = "coll"
        /\ last'.res[4] = <<>>
        /\ PropKey(last'.arg[2]) \in DOMAIN dbs'[last'.arg[1]]._collections
        /\ dbs'[last'.arg[1]]._collections[PropKey(last'.arg[2])].docs = <<>>

\* dropCollection(name) returns true exactly when the name was registered,
\* and then collections() no longer has it; otherwise nothing changes
C34_Drops ==
    last'.op = "dropCollection" =>
        /\ last'.res = Bool(C34_Existed)
        /\ C34_Existed => PropKey(last'.arg[2]) \notin collections(dbs'[last'.arg[1]])
        /\ ~C34_Existed => (dbs' = dbs /\ connections' = connections /\ accessors' = accessors)

\* C34: collection(name) returns the same collection, with its documents,
\* on every call until that name is dropped or renamed; dropCollection(name)
\* returns true exactly when the collection existed, after which the name is
\* absent from collections() and the next collection(name) yields a new,
\* empty collection; dropCollection of an unknown name returns false and
\* changes nothing.
C34_CollectionUntilDropped ==
    [][C34_Stable /\ C34_Returns /\ C34_New /\ C34_Drops]_vars

\* C36: renameCollection(from, to) affects only the collection registered
\* as from: every other collection of the handle, the one registered under
\* to included, stays registered under its own name with its documents, and
\* the other handles are left alone.
C36_RenameTouchesOnlyFrom ==
    [][last'.op = "renameCollection" =>
          \A i \in 1..Len(dbs) :
              \A n \in DOMAIN dbs[i]._collections :
                  (i # last'.arg[1] \/ n # PropKey(last'.arg[2])) =>
                      /\ n \in DOMAIN dbs'[i]._collections
                      /\ dbs'[i]._collections[n] = dbs[i]._collections[n]]_vars

\* C38: after any sequence of collection, dropCollection, renameCollection
\* and Collection.rename calls, every key n of the collections of a handle
\* maps to a collection whose name is n and whose fullName is
\* '<databaseName>.n'.
C38_KeyIsName ==
    \A i \in 1..Len(dbs) :
        \A n \in DOMAIN dbs[i]._collections :
            /\ dbs[i]._collections[n].name = n
            /\ dbs[i]._collections[n].fullName = dbs[i].databaseName \o <<".">> \o n

(* ------------------------- handles specification ----------------------- *)
\* db[name] read on the i-th handle: the getter collection defined on
\* MongoPortable.prototype for the name, which every handle inherits, reads
\* the collections of the handle that defined it last; undefined without a
\* getter
accessor(hs, acc, i, name) ==
    IF name \notin DOMAIN acc THEN Undef
    ELSE IF name \in DOMAIN hs[acc[name]]._collections
    THEN Coll(hs[acc[name]]._collections[name])
    ELSE Undef

\* db[name]
GetAccessor(names) ==
    \E i \in 1..Len(dbs), name \in names :
        DbStep("get", <<i, name>>,
               DbResult(FALSE, accessor(dbs, accessors, i, name[2]), connections, dbs, accessors),
               MaxColls)

\* names handed to the constructor
TwoDbNames == { S_d, S_e }

NextLive ==
    \/ NewDatabaseOf(TwoDbNames, MaxColls)
    \/ CreateCollectionOf(TwoCollNames, MaxColls)
    \/ DropDatabase
    \/ GetAccessor(TwoCollNames)

SpecLive == Init /\ [][NextLive]_vars

\* C35: after any sequence of constructions and dropDatabase calls, a
\* dropDatabase repeated on a dropped handle whose name another handle has
\* reopened included, no two live handles (constructed and not themselves
\* dropped) have the same name, and the name of every live handle is in the
\* registry.
C35_LiveHandlesRegistered ==
    /\ \A i, j \in 1..Len(dbs) :
          (i # j /\ dbs[i].live /\ dbs[j].live) => dbs[i].databaseName # dbs[j].databaseName
    /\ \A i \in 1..Len(dbs) : dbs[i].live => dbs[i].databaseName \in connections

\* C37: the accessor db[name] that db.collection(name) defined yields the
\* collection db has under the name, whatever other handles do.
C37_AccessorYieldsOwn ==
    [][(last'.op = "get" /\ C34_Existed) =>
          last'.res = Coll(dbs[last'.arg[1]]._collections[PropKey(last'.arg[2])])]_vars

====
